---- MODULE Spec2Model ----
(***************************************************************************)
(* Verification model of the GitWalk code indexing pipeline:               *)
(*   - services/dependency_resolver.py  (DependencyResolver)               *)
(*   - services/embedding_service.py    (EmbeddingService)                 *)
(*   - services/parsers/*.py            (function extraction)              *)
(*   - services/file_service.py         (FileService.update_embeddings)    *)
(*                                                                         *)
(* Strings are sequences of tokens.  A token is either one punctuation     *)
(* character (".", "/", "@", "~", "*") or a maximal alphanumeric word.     *)
(* Every string operation the code applies (split, startswith, replace,    *)
(* lstrip, rstrip, concatenation) cuts strings only at punctuation, so the *)
(* token view computes what the code computes on characters.               *)
(***************************************************************************)
EXTENDS Integers, Sequences, FiniteSets, TLC

VARIABLES
    \* ---- DependencyResolver ----
    files,          \* self.files: sequence of file documents
    tsconfig_map,   \* self.tsconfig_map: config dir -> [aliases, base_url]
    dependencies,   \* local `dependencies` of resolve_all_dependencies
    rs_pc,          \* position in resolve_all_dependencies
    rs_i,           \* index of the loop of the current pass
    rs_trace,       \* per processed file: import -> [strategy, resolved]
    \* ---- _create_sliding_window_chunks ----
    sw_in,          \* arguments [start_line, end_line, chunk_size, overlap]
    sw_current,     \* local `current`
    sw_chunks,      \* local `chunks`
    sw_pc,          \* position in the loop
    \* ---- EmbeddingService run ----
    em_files,       \* parsed_files of the run (sequence of file documents)
    em_db,          \* document store: file_id -> [embeddings, summary_embedding, embedded]
    em_pc,          \* position in generate_embeddings_for_repository
    em_i,           \* loop variable i of the batch loop (0-based)
    em_task,        \* per file of the run: state of its _generate_embeddings_for_file call
    em_count,       \* embedded_count
    em_backend,     \* self.use_codebert, self.provider, self.model
    \* ---- KeywordScorer ----
    sc_in,          \* arguments: query, file_path, summary, code_names, scores
    sc_out,         \* results of score_document, hybrid_score, apply_filename_boost
    sc_pc,          \* which of the three have been applied
    \* ---- ParserFactory.parse_file ----
    pr_in,          \* arguments: code, file_path, language
    pr_proc,        \* the interpreter process: its number and string-hash seed
    pr_out,         \* per call of parse_file: the process and the outcome
    \* ---- EmbeddingService._load_model ----
    ld_codebert,    \* self.use_codebert of the service instance
    ld_model,       \* self.model: 0 is None, n > 0 the object the n-th loader call built
    ld_calls,       \* number of calls of the model loader so far
    ld_assigned,    \* the values assigned to self.model, in order
    ld_pc,          \* per run: its position in _load_model
    \* ---- TaskService ----
    tk_tasks,       \* the tasks collection: task_id -> the document's fields
    tk_ops,         \* number of calls of the service so far
    \* ---- MessageService.bulk_create ----
    ms_docs,        \* the messages of the conversation, in insertion order
    ms_pc           \* per call of bulk_create: its position and locals

resolverVars == <<files, tsconfig_map, dependencies, rs_pc, rs_i, rs_trace>>
chunkVars    == <<sw_in, sw_current, sw_chunks, sw_pc>>
embedVars    == <<em_files, em_db, em_pc, em_i, em_task, em_count, em_backend>>
scoreVars    == <<sc_in, sc_out, sc_pc>>
parseVars    == <<pr_in, pr_proc, pr_out>>
loadVars     == <<ld_codebert, ld_model, ld_calls, ld_assigned, ld_pc>>
taskVars     == <<tk_tasks, tk_ops>>
messageVars  == <<ms_docs, ms_pc>>
serviceVars  == <<loadVars, taskVars, messageVars>>
otherVars    == <<scoreVars, parseVars, serviceVars>>
vars         == <<resolverVars, chunkVars, embedVars, otherVars>>

(***************************************************************************)
(* String helpers (Python str methods on token sequences)                  *)
(***************************************************************************)
Min(a, b) == IF a <= b THEN a ELSE b

\* s.startswith(p)
StartsWith(s, p) == Len(s) >= Len(p) /\ SubSeq(s, 1, Len(p)) = p

\* s[n:] (0-based n)
Drop(s, n) == SubSeq(s, n + 1, Len(s))

\* index of the first token d in s, 0 if none
RECURSIVE FirstIndexFrom(_, _, _)
FirstIndexFrom(s, d, i) ==
    IF i > Len(s) THEN 0
    ELSE IF s[i] = d THEN i
    ELSE FirstIndexFrom(s, d, i + 1)

\* s.split(d): sequence of the pieces between occurrences of the token d
RECURSIVE Split(_, _)
Split(s, d) ==
    LET k == FirstIndexFrom(s, d, 1)
    IN  IF k = 0 THEN <<s>>
        ELSE <<SubSeq(s, 1, k - 1)>> \o Split(Drop(s, k), d)

\* d.join(parts)
RECURSIVE Join(_, _)
Join(parts, d) ==
    IF Len(parts) = 0 THEN <<>>
    ELSE IF Len(parts) = 1 THEN parts[1]
    ELSE parts[1] \o <<d>> \o Join(Tail(parts), d)

\* s.lstrip(chars), s.rstrip(chars): chars is a set of tokens
RECURSIVE LStrip(_, _)
LStrip(s, chars) ==
    IF Len(s) > 0 /\ s[1] \in chars THEN LStrip(Tail(s), chars) ELSE s

RECURSIVE RStrip(_, _)
RStrip(s, chars) ==
    IF Len(s) > 0 /\ s[Len(s)] \in chars
    THEN RStrip(SubSeq(s, 1, Len(s) - 1), chars) ELSE s

\* s.replace(a, b) for single tokens a, b
ReplaceToken(s, a, b) == [i \in 1..Len(s) |-> IF s[i] = a THEN b ELSE s[i]]

\* parts[:-1]
ButLast(parts) == SubSeq(parts, 1, Len(parts) - 1)

\* Python's None for an Optional[str]; the empty string is falsy as well
NoPath == <<>>

(***************************************************************************)
(* DependencyResolver: construction                                        *)
(***************************************************************************)
\* self.extension_map.get(language, [])
extension_map(language) ==
    CASE language = "javascript" -> << <<".", "js">>, <<".", "jsx">>, <<".", "mjs">>, <<".", "cjs">> >>
      [] language = "typescript" -> << <<".", "ts">>, <<".", "tsx">>, <<".", "mts">>, <<".", "cts">> >>
      [] language = "python"     -> << <<".", "py">> >>
      [] language = "go"         -> << <<".", "go">> >>
      [] language = "java"       -> << <<".", "java">> >>
      [] language = "rust"       -> << <<".", "rs">> >>
      [] language = "php"        -> << <<".", "php">> >>
      [] language = "cpp"        -> << <<".", "cpp">>, <<".", "cc">>, <<".", "cxx">>, <<".", "hpp">>, <<".", "h">> >>
      [] language = "c"          -> << <<".", "c">>, <<".", "h">> >>
      [] OTHER                   -> << >>

\* self.file_map.keys() for a list of file documents
file_map(fs) == {fs[i].path : i \in 1..Len(fs)}

\* the document of a path (paths are unique per repository)
FileOf(fs, path) == fs[CHOOSE i \in 1..Len(fs) : fs[i].path = path]

\* "frontend/tsconfig.json" -> "frontend", "tsconfig.json" -> ""
DirOf(path) == Join(ButLast(Split(path, "/")), "/")

\* path.split('/')[-1]
FileNameOf(path) == LET parts == Split(path, "/") IN parts[Len(parts)]

config_files == { <<"tsconfig", ".", "json">>, <<"jsconfig", ".", "json">> }

\* resolved_base_url of one configuration (lines 166-178)
ResolvedBaseUrl(config_dir, base_url) ==
    IF base_url = <<>> THEN NoPath
    ELSE LET clean_base_url == RStrip(LStrip(base_url, {".", "/"}), {"/"})
         IN  IF config_dir # <<>>
             THEN IF clean_base_url # <<>>
                  THEN config_dir \o <<"/">> \o clean_base_url
                  ELSE config_dir
             ELSE clean_base_url

\* one entry of compilerOptions.paths (lines 187-206): <<alias, full_target>>
AliasEntry(config_dir, resolved_base_url, alias_pattern, target_paths) ==
    LET a0     == RStrip(alias_pattern, {"*"})
        alias  == IF a0 # <<>> /\ a0[Len(a0)] # "/" THEN a0 \o <<"/">> ELSE a0
        t0     == RStrip(LStrip(target_paths[1], {".", "/"}), {"*"})
        target == IF t0 # <<>> /\ t0[Len(t0)] # "/" THEN t0 \o <<"/">> ELSE t0
        full_target ==
            IF resolved_base_url # <<>> THEN resolved_base_url \o <<"/">> \o target
            ELSE IF config_dir # <<>> THEN config_dir \o <<"/">> \o target
            ELSE target
    IN  <<alias, full_target>>

\* the loop over paths.items() (lines 180-206); later entries overwrite
RECURSIVE AliasesFromPaths(_, _, _, _, _)
AliasesFromPaths(config_dir, resolved_base_url, paths, i, acc) ==
    IF i > Len(paths) THEN acc
    ELSE IF paths[i].targets = <<>>
    THEN AliasesFromPaths(config_dir, resolved_base_url, paths, i + 1, acc)
    ELSE LET e == AliasEntry(config_dir, resolved_base_url,
                             paths[i].pattern, paths[i].targets)
             rest == [a \in DOMAIN acc \ {e[1]} |-> acc[a]]
         IN  AliasesFromPaths(config_dir, resolved_base_url, paths, i + 1,
                              (e[1] :> e[2]) @@ rest)

AtSlash    == <<"@", "/">>
TildeSlash == <<"~", "/">>

\* the default aliases added when the file does not define them (lines 208-221)
WithDefaultAliases(config_dir, resolved_base_url, aliases) ==
    LET at == IF AtSlash \in DOMAIN aliases THEN aliases
              ELSE aliases @@ (AtSlash :>
                     (IF resolved_base_url # <<>> THEN resolved_base_url \o <<"/">>
                      ELSE IF config_dir # <<>> THEN config_dir \o <<"/", "src", "/">>
                      ELSE <<"src", "/">>))
    IN  IF TildeSlash \in DOMAIN at THEN at
        ELSE at @@ (TildeSlash :>
               (IF config_dir # <<>> THEN config_dir \o <<"/">> ELSE <<>>))

\* the configuration stored for one successfully parsed file (lines 153-227)
ParsedConfig(config_path, content) ==
    LET config_dir == DirOf(config_path)
        rbu        == ResolvedBaseUrl(config_dir, content.baseUrl)
    IN  [aliases  |-> WithDefaultAliases(config_dir, rbu,
                        AliasesFromPaths(config_dir, rbu, content.paths, 1, <<>>)),
         base_url |-> rbu]

\* mutant: a configuration file that cannot be read is loaded as an empty
\* configuration
ConfigLoadsAnyContent(f) == FileNameOf(f.path) \in config_files

\* a configuration file is loaded unless it has no content (line 140) or
\* json.loads raises (lines 235-238)
ConfigLoads(f) ==
    /\ FileNameOf(f.path) \in config_files
    /\ f.content.kind = "json"

\* _parse_all_tsconfigs: directory of each loaded configuration -> its config
ParseAllTsconfigs(fs) ==
    LET loaded == {i \in 1..Len(fs) : ConfigLoads(fs[i])}
        dirs   == {DirOf(fs[i].path) : i \in loaded}
    IN  [d \in dirs |->
            LET i == CHOOSE j \in loaded : DirOf(fs[j].path) = d
            IN  ParsedConfig(fs[i].path, fs[i].content)]

(***************************************************************************)
(* DependencyResolver: resolution of one import                            *)
(***************************************************************************)
default_config ==
    [aliases  |-> (AtSlash :> <<"src", "/">>) @@ (TildeSlash :> <<>>),
     base_url |-> NoPath]

\* the walk up the directory tree (lines 276-294)
RECURSIVE WalkUpConfig(_, _)
WalkUpConfig(tmap, current_dir) ==
    IF current_dir \in DOMAIN tmap THEN tmap[current_dir]
    ELSE IF "/" \in {current_dir[i] : i \in 1..Len(current_dir)}
    THEN WalkUpConfig(tmap, Join(ButLast(Split(current_dir, "/")), "/"))
    ELSE IF current_dir # <<>>
    THEN WalkUpConfig(tmap, <<>>)
    ELSE default_config

\* mutant: the root configuration wins over a nearer one
GetConfigForFileRootFirst(tmap, file_path) ==
    IF DOMAIN tmap = {} THEN default_config
    ELSE IF <<>> \in DOMAIN tmap THEN tmap[<<>>]
    ELSE WalkUpConfig(tmap, DirOf(file_path))

\* _get_config_for_file
GetConfigForFile(tmap, file_path) ==
    IF DOMAIN tmap = {} THEN default_config
    ELSE LET path_parts == Split(file_path, "/")
             file_dir   == IF Len(path_parts) > 1
                           THEN Join(ButLast(path_parts), "/") ELSE <<>>
         IN  WalkUpConfig(tmap, file_dir)

\* first candidate of a sequence that is a repository path, NoPath if none
RECURSIVE FirstIn(_, _, _)
FirstIn(cands, fmap, i) ==
    IF i > Len(cands) THEN NoPath
    ELSE IF cands[i] \in fmap THEN cands[i]
    ELSE FirstIn(cands, fmap, i + 1)

\* _find_file_with_extension: exact path, path + extension, then
\* path/index.ext and path/__init__.ext, in that order
FindFileWithExtension(fmap, base_path, language) ==
    LET exts == extension_map(language)
        withExt   == [i \in 1..Len(exts) |-> base_path \o exts[i]]
        withIndex == [i \in 1..Len(exts) |-> base_path \o <<"/", "index">> \o exts[i]]
        withInit  == [i \in 1..Len(exts) |-> base_path \o <<"/", "__init__">> \o exts[i]]
    IN  FirstIn(<<base_path>> \o withExt \o withIndex \o withInit, fmap, 1)

node_builtins ==
    { <<"fs">>, <<"path">>, <<"http">>, <<"https">>, <<"crypto">>, <<"buffer">>,
      <<"stream">>, <<"url">>, <<"util">>, <<"events">>, <<"os">>, <<"net">>,
      <<"tls">>, <<"child_process">> }

python_stdlib ==
    { <<"os">>, <<"sys">>, <<"json">>, <<"re">>, <<"datetime">>, <<"asyncio">>,
      <<"typing">>, <<"pathlib">>, <<"collections">>, <<"itertools">>,
      <<"functools">>, <<"unittest">>, <<"pytest">>, <<"flask">>, <<"django">>,
      <<"pandas">>, <<"numpy">>, <<"requests">> }

\* mutant: the Python standard-library denylist is not consulted
IsExternalPackageNoStdlib(fmap, import_path, language) ==
    IF language \in {"javascript", "typescript"}
    THEN \/ Split(import_path, "/")[1] \in node_builtins
         \/ /\ ~StartsWith(import_path, AtSlash)
            /\ ~StartsWith(import_path, TildeSlash)
            /\ ~StartsWith(import_path, <<".">>)
            /\ ~StartsWith(import_path, <<"/">>)
    ELSE IF language = "python"
    THEN /\ ~StartsWith(import_path, <<".">>)
         /\ FindFileWithExtension(fmap, ReplaceToken(import_path, ".", "/"),
                                  language) = NoPath
    ELSE FALSE

\* _is_external_package
IsExternalPackage(fmap, import_path, language) ==
    IF language \in {"javascript", "typescript"}
    THEN \/ Split(import_path, "/")[1] \in node_builtins
         \/ /\ ~StartsWith(import_path, AtSlash)
            /\ ~StartsWith(import_path, TildeSlash)
            /\ ~StartsWith(import_path, <<".">>)
            /\ ~StartsWith(import_path, <<"/">>)
    ELSE IF language = "python"
    THEN \/ Split(import_path, ".")[1] \in python_stdlib
         \/ /\ ~StartsWith(import_path, <<".">>)
            /\ FindFileWithExtension(fmap, ReplaceToken(import_path, ".", "/"),
                                     language) = NoPath
    ELSE IF language = "go"
    THEN /\ ~StartsWith(import_path, <<".">>)
         /\ "." \in {Split(import_path, "/")[1][i] :
                        i \in 1..Len(Split(import_path, "/")[1])}
    ELSE FALSE

\* mutant: ".." is kept as a path part when there is no directory to leave
RECURSIVE ApplyPartsUnguarded(_, _, _)
ApplyPartsUnguarded(parts, i, path_parts) ==
    IF i > Len(parts) THEN path_parts
    ELSE IF parts[i] = <<".", ".">>
    THEN ApplyPartsUnguarded(parts, i + 1,
                    IF Len(path_parts) > 0 THEN ButLast(path_parts)
                    ELSE Append(path_parts, parts[i]))
    ELSE IF parts[i] # <<>> /\ parts[i] # <<".">>
    THEN ApplyPartsUnguarded(parts, i + 1, Append(path_parts, parts[i]))
    ELSE ApplyPartsUnguarded(parts, i + 1, path_parts)

\* the loop over the parts of a relative import (lines 470-476)
RECURSIVE ApplyParts(_, _, _)
ApplyParts(parts, i, path_parts) ==
    IF i > Len(parts) THEN path_parts
    ELSE IF parts[i] = <<".", ".">>
    THEN ApplyParts(parts, i + 1,
                    IF Len(path_parts) > 0 THEN ButLast(path_parts) ELSE path_parts)
    ELSE IF parts[i] # <<>> /\ parts[i] # <<".">>
    THEN ApplyParts(parts, i + 1, Append(path_parts, parts[i]))
    ELSE ApplyParts(parts, i + 1, path_parts)

\* _resolve_relative
ResolveRelative(fmap, import_path, current_file, language) ==
    LET current_dir == Join(ButLast(Split(current_file, "/")), "/")
        clean_path  == IF StartsWith(import_path, <<".", "/">>)
                       THEN Drop(import_path, 2) ELSE import_path
        parts       == Split(clean_path, "/")
        path_parts  == IF current_dir # <<>> THEN Split(current_dir, "/") ELSE <<>>
        resolved_base == Join(ApplyParts(parts, 1, path_parts), "/")
    IN  FindFileWithExtension(fmap, resolved_base, language)

\* _resolve_absolute
ResolveAbsolute(fmap, tmap, import_path0, current_file, language) ==
    LET import_path == IF language = "python"
                       THEN ReplaceToken(import_path0, ".", "/") ELSE import_path0
        base_url    == IF language \in {"javascript", "typescript"}
                       THEN GetConfigForFile(tmap, current_file).base_url
                       ELSE NoPath
        via_base    == IF base_url # <<>>
                       THEN FindFileWithExtension(fmap,
                                base_url \o <<"/">> \o import_path, language)
                       ELSE NoPath
    IN  IF via_base # NoPath THEN via_base
        ELSE FindFileWithExtension(fmap, import_path, language)

\* the aliases of a scope that are a prefix of the import
MatchingAliases(aliases, import_path) ==
    {a \in DOMAIN aliases : StartsWith(import_path, a)}

\* _resolve_alias: the first match in longest-first order decides
ResolveAlias(fmap, tmap, import_path, current_file_path, language) ==
    LET aliases == GetConfigForFile(tmap, current_file_path).aliases
        hits    == MatchingAliases(aliases, import_path)
    IN  IF hits = {} THEN NoPath
        ELSE LET alias == CHOOSE a \in hits : \A b \in hits : Len(b) <= Len(a)
             IN  FindFileWithExtension(fmap,
                     aliases[alias] \o Drop(import_path, Len(alias)), language)

\* the branch resolve_import takes for an import (lines 365-378)
ImportStrategy(fmap, import_statement, language) ==
    IF IsExternalPackage(fmap, import_statement, language) THEN "external"
    ELSE IF StartsWith(import_statement, <<".">>) THEN "relative"
    ELSE IF \/ StartsWith(import_statement, AtSlash)
            \/ StartsWith(import_statement, TildeSlash)
            \/ StartsWith(import_statement, <<"@">>) THEN "alias"
    ELSE "absolute"

\* resolve_import
ResolveImport(fmap, tmap, import_statement, current_file_path, language) ==
    LET s == ImportStrategy(fmap, import_statement, language)
    IN  CASE s = "external" -> NoPath
          [] s = "relative" -> ResolveRelative(fmap, import_statement,
                                               current_file_path, language)
          [] s = "alias"    -> ResolveAlias(fmap, tmap, import_statement,
                                            current_file_path, language)
          [] OTHER          -> ResolveAbsolute(fmap, tmap, import_statement,
                                               current_file_path, language)

(***************************************************************************)
(* Bounded inputs of the resolver: repositories drawn from two universes   *)
(***************************************************************************)
\* at most this many import statements in one repository
MaxImports == 2

NoContent == [kind |-> "text", paths |-> <<>>, baseUrl |-> <<>>]
Malformed == [kind |-> "malformed", paths |-> <<>>, baseUrl |-> <<>>]
\* a file whose content is the empty string
EmptyContent == [kind |-> "empty", paths |-> <<>>, baseUrl |-> <<>>]
\* {"compilerOptions": {"paths": {"@/*": ["./src/*"]}}}
RootCfg   == [kind |-> "json",
              paths |-> << [pattern |-> <<"@", "/", "*">>,
                            targets |-> << <<".", "/", "src", "/", "*">> >>] >>,
              baseUrl |-> <<>>]
\* {"compilerOptions": {"paths": {"@/*": ["./app/*"]}}}
FrontCfg  == [kind |-> "json",
              paths |-> << [pattern |-> <<"@", "/", "*">>,
                            targets |-> << <<".", "/", "app", "/", "*">> >>] >>,
              baseUrl |-> <<>>]

a_py     == <<"a", ".", "py">>
b_py     == <<"b", ".", "py">>
os_py    == <<"os", ".", "py">>
pkg_c_py == <<"pkg", "/", "c", ".", "py">>

root_tsconfig  == <<"tsconfig", ".", "json">>
front_tsconfig == <<"frontend", "/", "tsconfig", ".", "json">>
x_ts           == <<"frontend", "/", "src", "/", "x", ".", "ts">>
front_util_ts  == <<"frontend", "/", "app", "/", "util", ".", "ts">>
src_util_ts    == <<"src", "/", "util", ".", "ts">>

\* candidate files of a Python repository, in listing order
PyUniverse ==
    << [path |-> a_py,     language |-> "python", contents |-> {NoContent}],
       [path |-> b_py,     language |-> "python", contents |-> {NoContent}],
       [path |-> os_py,    language |-> "python", contents |-> {NoContent}],
       [path |-> pkg_c_py, language |-> "python", contents |-> {NoContent}] >>

PyImports ==
    { <<".", "/", "b">>,            \* "./b"
      <<"os">>,                     \* "os"
      <<".", "/", "os">>,           \* "./os"
      <<"pkg", ".", "c">>,          \* "pkg.c"
      <<".", ".", "/", "b">>,       \* "../b"
      <<".", ".", "/", ".", ".", "/", "b">> }   \* "../../b"

\* candidate files of a TypeScript repository, in listing order
TsUniverse ==
    << [path |-> root_tsconfig,  language |-> "json", contents |-> {RootCfg, Malformed}],
       [path |-> front_tsconfig, language |-> "json",
        contents |-> {FrontCfg, Malformed, EmptyContent}],
       [path |-> x_ts,           language |-> "typescript", contents |-> {NoContent}],
       [path |-> front_util_ts,  language |-> "typescript", contents |-> {NoContent}],
       [path |-> src_util_ts,    language |-> "typescript", contents |-> {NoContent}] >>

TsImports ==
    { <<"@", "/", "util">>,                         \* "@/util"
      <<".", ".", "/", "app", "/", "util">>,        \* "../app/util"
      <<"~", "/", "src", "/", "util">>,             \* "~/src/util"
      <<"fs">> }                                    \* "fs"

\* the subsets of S with at most n elements
RECURSIVE SubsetsUpTo(_, _)
SubsetsUpTo(S, n) ==
    IF n = 0 THEN {{}}
    ELSE LET smaller == SubsetsUpTo(S, n - 1)
         IN  smaller \cup {T \cup {x} : T \in smaller, x \in S}

\* the i-th smallest element of a set of numbers
RECURSIVE Sorted(_)
Sorted(S) ==
    IF S = {} THEN <<>>
    ELSE LET m == CHOOSE x \in S : \A y \in S : x <= y
         IN  <<m>> \o Sorted(S \ {m})

Reverse(s) == [i \in 1..Len(s) |-> s[Len(s) + 1 - i]]

\* the file list of one repository
RepoOf(universe, order, content, stmts) ==
    [k \in 1..Len(order) |->
        [path     |-> universe[order[k]].path,
         language |-> universe[order[k]].language,
         content  |-> content[order[k]],
         imports  |-> {p[2] : p \in {q \in stmts : q[1] = order[k]}}]]

\* the repositories holding exactly the files `chosen` of a universe
RepositoriesOn(universe, importStrings, chosen) ==
    LET importers == {i \in chosen : universe[i].language # "json"}
        order0    == Sorted(chosen)
        contents  == {c \in [chosen -> UNION {universe[i].contents : i \in chosen}] :
                         \A i \in chosen : c[i] \in universe[i].contents}
    IN  { RepoOf(universe, order, content, stmts) :
            order   \in {order0, Reverse(order0)},
            content \in contents,
            stmts   \in SubsetsUpTo(importers \X importStrings, MaxImports) }

\* the repositories of a universe: any subset of its files, in listing order
\* or reversed, any content, at most MaxImports import statements among the
\* source files (a configuration file has none)
Repositories(universe, importStrings) ==
    UNION { RepositoriesOn(universe, importStrings, chosen) :
              chosen \in SUBSET (1..Len(universe)) }

IdleResolver ==
    /\ files = <<>> /\ tsconfig_map = <<>> /\ dependencies = <<>>
    /\ rs_pc = "idle" /\ rs_i = 0 /\ rs_trace = <<>>

IdleChunk ==
    /\ sw_in = [start_line |-> 0, end_line |-> 0, chunk_size |-> 0, overlap |-> 0]
    /\ sw_current = 0 /\ sw_chunks = <<>> /\ sw_pc = "idle"

IdleEmbed ==
    /\ em_files = <<>> /\ em_db = <<>> /\ em_pc = "idle"
    /\ em_i = 0 /\ em_task = <<>> /\ em_count = 0
    /\ em_backend = [use_codebert |-> FALSE, provider |-> "unset", model |-> "None"]

IdleScore ==
    /\ sc_in = <<>> /\ sc_out = <<>> /\ sc_pc = {}

IdleParse ==
    /\ pr_in = <<>> /\ pr_proc = <<>> /\ pr_out = <<>>

IdleLoad ==
    /\ ld_codebert = FALSE /\ ld_model = 0 /\ ld_calls = 0
    /\ ld_assigned = <<>> /\ ld_pc = <<>>

IdleTask == tk_tasks = <<>> /\ tk_ops = 0

IdleMessages == ms_docs = <<>> /\ ms_pc = <<>>

IdleService == IdleLoad /\ IdleTask /\ IdleMessages

IdleOther == IdleScore /\ IdleParse /\ IdleService

(***************************************************************************)
(* DependencyResolver.resolve_all_dependencies as a state machine          *)
(***************************************************************************)
\* the state after DependencyResolver(repo_id, files) and the entry of
\* resolve_all_dependencies (line 305)
InitResolver ==
    /\ files \in Repositories(PyUniverse, PyImports)
                   \cup Repositories(TsUniverse, TsImports)
    /\ tsconfig_map = ParseAllTsconfigs(files)
    /\ dependencies = <<>>
    /\ rs_pc = "first"
    /\ rs_i = 1
    /\ rs_trace = <<>>
    /\ IdleChunk /\ IdleEmbed /\ IdleOther

\* the outcome of resolve_import for every import of one file (lines 325-326)
ImportOutcomes(fs, tmap, f) ==
    [s \in f.imports |->
        [strategy |-> ImportStrategy(file_map(fs), s, f.language),
         resolved |-> ResolveImport(file_map(fs), tmap, s, f.path, f.language)]]

\* mutant: an unresolved import is dropped instead of demoted
FirstPassEntryDropping(imports, outcome) ==
    [imports          |-> {outcome[s].resolved :
                              s \in {t \in imports : outcome[t].resolved # NoPath}},
     imported_by      |-> <<>>,
     external_imports |-> {}]

\* the entry the first pass stores for one file (lines 313-337): a resolved
\* import goes to imports, any other to external_imports, duplicates collapse
FirstPassEntry(imports, outcome) ==
    [imports          |-> {outcome[s].resolved :
                              s \in {t \in imports : outcome[t].resolved # NoPath}},
     imported_by      |-> <<>>,
     external_imports |-> {s \in imports : outcome[s].resolved = NoPath}]

\* mutant: the reverse edges of a file are appended as soon as its own
\* imports are resolved, to the entries that exist by then
ResolveFirstPassInterleaved ==
    /\ rs_pc = "first"
    /\ rs_i <= Len(files)
    /\ LET f       == files[rs_i]
           outcome == ImportOutcomes(files, tsconfig_map, f)
           entry   == FirstPassEntry(f.imports, outcome)
           deps    == (f.path :> entry) @@ dependencies
       IN  /\ dependencies' =
                 [q \in DOMAIN deps |->
                    IF q \in entry.imports
                    THEN [deps[q] EXCEPT !.imported_by = Append(@, f.path)]
                    ELSE deps[q]]
           /\ rs_trace' = (f.path :> outcome) @@ rs_trace
    /\ rs_i' = rs_i + 1
    /\ UNCHANGED <<files, tsconfig_map, rs_pc, chunkVars, embedVars, otherVars>>

\* one iteration of the first loop (lines 308-337)
ResolveFirstPass ==
    /\ rs_pc = "first"
    /\ rs_i <= Len(files)
    /\ LET f       == files[rs_i]
           outcome == ImportOutcomes(files, tsconfig_map, f)
       IN  /\ dependencies' = (f.path :> FirstPassEntry(f.imports, outcome))
                                 @@ dependencies
           /\ rs_trace' = (f.path :> outcome) @@ rs_trace
    /\ rs_i' = rs_i + 1
    /\ UNCHANGED <<files, tsconfig_map, rs_pc, chunkVars, embedVars, otherVars>>

\* the first loop is exhausted; the second loop starts (line 340)
ResolveStartSecondPass ==
    /\ rs_pc = "first"
    /\ rs_i > Len(files)
    /\ rs_pc' = "second"
    /\ rs_i' = 1
    /\ UNCHANGED <<files, tsconfig_map, dependencies, rs_trace, chunkVars, embedVars, otherVars>>

\* mutant: the imported file is appended instead of the importing one
WithReverseEdgesSwapped(deps, path) ==
    [q \in DOMAIN deps |->
        IF q \in deps[path].imports
        THEN [deps[q] EXCEPT !.imported_by = Append(@, q)]
        ELSE deps[q]]

\* the reverse edges one file contributes (lines 341-343)
WithReverseEdges(deps, path) ==
    [q \in DOMAIN deps |->
        IF q \in deps[path].imports
        THEN [deps[q] EXCEPT !.imported_by = Append(@, path)]
        ELSE deps[q]]

\* one iteration of the second loop (lines 340-343); dependencies.items()
\* iterates in insertion order, the order of self.files
ResolveSecondPass ==
    /\ rs_pc = "second"
    /\ rs_i <= Len(files)
    /\ dependencies' = WithReverseEdges(dependencies, files[rs_i].path)
    /\ rs_i' = rs_i + 1
    /\ UNCHANGED <<files, tsconfig_map, rs_pc, rs_trace, chunkVars, embedVars, otherVars>>

\* return dependencies (line 346)
ResolveReturn ==
    /\ rs_pc = "second"
    /\ rs_i > Len(files)
    /\ rs_pc' = "done"
    /\ UNCHANGED <<files, tsconfig_map, dependencies, rs_i, rs_trace, chunkVars, embedVars, otherVars>>

NextResolver ==
    \/ ResolveFirstPass
    \/ ResolveStartSecondPass
    \/ ResolveSecondPass
    \/ ResolveReturn

SpecResolver == InitResolver /\ [][NextResolver]_vars

(***************************************************************************)
(* Claims about the resolver                                               *)
(***************************************************************************)
Range(seq) == {seq[i] : i \in 1..Len(seq)}

Imports(path) == (FileOf(files, path)).imports

\* the repository of the resolver round-trip example: a.py importing "./b",
\* b.py without imports
RoundTripRepo ==
    /\ file_map(files) = {a_py, b_py}
    /\ Imports(a_py) = { <<".", "/", "b">> }
    /\ Imports(b_py) = {}

\* C1: when resolve_all_dependencies returns, imports and imported_by are
\* exact inverses (b is in a's imports iff a is in b's imported_by, for all
\* repository paths a, b), and the example repository yields
\* a.py.imports = [b.py] and b.py.imported_by = [a.py].
C1_InverseRelations ==
    rs_pc = "done" =>
        /\ DOMAIN dependencies = file_map(files)
        /\ \A a \in file_map(files) : \A b \in file_map(files) :
              b \in dependencies[a].imports
                 <=> a \in Range(dependencies[b].imported_by)
        /\ RoundTripRepo =>
              /\ dependencies[a_py].imports = {b_py}
              /\ dependencies[b_py].imported_by = <<a_py>>

C1_Witness ==
    /\ rs_pc = "done"
    /\ RoundTripRepo
    /\ dependencies[b_py].imported_by = <<a_py>>
    /\ dependencies[a_py].imported_by = <<>>

\* C2: every raw import of a processed file has exactly one outcome, a path
\* of the repository in the file's imports or the import string itself in its
\* external_imports; nothing is dropped and no element of imports is absent
\* from the repository.
C2_ResolvedOrExternal ==
    \A p \in DOMAIN dependencies :
        LET d == dependencies[p]
        IN  /\ d.imports \subseteq file_map(files)
            /\ d.external_imports \subseteq Imports(p)
            /\ \A s \in Imports(p) :
                  LET r == rs_trace[p][s].resolved
                  IN  /\ (s \in d.external_imports) <=> (r = NoPath)
                      /\ (r # NoPath) => (r \in d.imports /\ r \in file_map(files))
            /\ \A q \in d.imports : \E s \in Imports(p) : rs_trace[p][s].resolved = q

C2_Witness ==
    /\ rs_pc = "done"
    /\ a_py \in DOMAIN dependencies
    /\ dependencies[a_py].imports = {b_py}
    /\ dependencies[a_py].external_imports = { <<".", "/", "os">> }

AtUtil == <<"@", "/", "util">>

\* the directories whose configuration was loaded and that enclose a file
EnclosingScopes(path) ==
    {d \in DOMAIN tsconfig_map :
        d = <<>> \/ DirOf(path) = d \/ StartsWith(DirOf(path), d \o <<"/">>)}

\* C3: alias resolution uses the nearest enclosing scope: with the frontend/
\* configuration loaded, "@/util" in frontend/src/x.ts resolves against
\* frontend/app/ and never against the root scope's src/; a file with no
\* enclosing configuration uses the default scope (@/ -> src/).
C3_NearestAliasScope ==
    \A p \in DOMAIN rs_trace :
        AtUtil \in DOMAIN rs_trace[p] =>
            LET r == rs_trace[p][AtUtil].resolved
            IN  /\ (p = x_ts /\ <<"frontend">> \in DOMAIN tsconfig_map) =>
                      /\ r = (IF front_util_ts \in file_map(files)
                              THEN front_util_ts ELSE NoPath)
                      /\ r # src_util_ts
                /\ EnclosingScopes(p) = {} =>
                      r = (IF src_util_ts \in file_map(files)
                           THEN src_util_ts ELSE NoPath)

C3_Witness ==
    /\ rs_pc = "done"
    /\ DOMAIN tsconfig_map = { <<>>, <<"frontend">> }
    /\ tsconfig_map[<<>>].aliases[AtSlash] = <<"src", "/">>
    /\ tsconfig_map[<<"frontend">>].aliases[AtSlash] = <<"frontend", "/", "app", "/">>
    /\ {src_util_ts, front_util_ts, x_ts} \subseteq file_map(files)
    /\ Imports(x_ts) = {AtUtil}
    /\ dependencies[x_ts].imports = {front_util_ts}

\* a file outside every loaded scope resolves "@/util" with the default scope
C3_WitnessDefault ==
    /\ rs_pc = "done"
    /\ DOMAIN tsconfig_map = { <<"frontend">> }
    /\ src_util_ts \in file_map(files)
    /\ AtUtil \in Imports(src_util_ts)
    /\ dependencies[src_util_ts].imports = {src_util_ts}

\* C4: in a Python file "os" is classified external (no edge, whatever the
\* repository holds), and "./os" is not: it goes to relative resolution.
C4_ExternalClassification ==
    \A p \in DOMAIN rs_trace :
        (FileOf(files, p)).language = "python" =>
            /\ <<"os">> \in DOMAIN rs_trace[p] =>
                  /\ rs_trace[p][<<"os">>].strategy = "external"
                  /\ rs_trace[p][<<"os">>].resolved = NoPath
                  /\ <<"os">> \in dependencies[p].external_imports
            /\ <<".", "/", "os">> \in DOMAIN rs_trace[p] =>
                  /\ rs_trace[p][<<".", "/", "os">>].strategy = "relative"
                  /\ (os_py \in file_map(files) /\ DirOf(p) = <<>>) =>
                        os_py \in dependencies[p].imports

C4_Witness ==
    /\ rs_pc = "done"
    /\ os_py \in file_map(files)
    /\ a_py \in file_map(files)
    /\ Imports(a_py) = { <<"os">>, <<".", "/", "os">> }
    /\ dependencies[a_py].imports = {os_py}
    /\ dependencies[a_py].external_imports = { <<"os">> }

(***************************************************************************)
(* EmbeddingService._create_sliding_window_chunks                          *)
(***************************************************************************)
\* chunk_size and overlap passed by _generate_embeddings_for_file
ChunkSize == 700
Overlap   == 100

\* bounds of the inputs
MaxStartLine  == 2
MaxSpan       == 1700
MaxSmallChunk == 3
MaxSmallSpan  == 7

\* the arguments the loop is run on: the production window over classes of
\* 1..MaxSpan lines, and every small window with chunk_size > overlap >= 0
ChunkInputs ==
    { [start_line |-> st, end_line |-> st + n - 1,
       chunk_size |-> ChunkSize, overlap |-> Overlap] :
         st \in 1..MaxStartLine, n \in 1..MaxSpan }
    \cup
    { in \in [start_line : 1..MaxStartLine, end_line : 1..(MaxStartLine + MaxSmallSpan),
              chunk_size : 1..MaxSmallChunk, overlap : 0..(MaxSmallChunk - 1)] :
         /\ in.overlap < in.chunk_size
         /\ in.start_line <= in.end_line
         /\ in.end_line - in.start_line + 1 <= MaxSmallSpan }

\* mutant: the window end is not clipped to the class end
ChunkEndUnclipped(current, chunk_size, end_line) == current + chunk_size

\* chunk_end (line 345)
ChunkEnd(current, chunk_size, end_line) == Min(current + chunk_size, end_line)

\* the chunk appended by one iteration (lines 348-352); the code slice is
\* the lines start..end of the content (_extract_code_by_lines, line 317)
ChunkAt(current, chunk_size, end_line) ==
    [start |-> current, end |-> ChunkEnd(current, chunk_size, end_line)]

InitChunk ==
    /\ sw_in \in ChunkInputs
    /\ sw_current = sw_in.start_line
    /\ sw_chunks = <<>>
    /\ sw_pc = "loop"
    /\ IdleResolver /\ IdleEmbed /\ IdleOther

\* mutant: the window advances past the end of the chunk it has appended
SlideWindowSkipping ==
    /\ sw_pc = "loop"
    /\ sw_current < sw_in.end_line
    /\ sw_chunks' = Append(sw_chunks,
                           ChunkAt(sw_current, sw_in.chunk_size, sw_in.end_line))
    /\ sw_current' = sw_current + sw_in.chunk_size + 2
    /\ sw_pc' = IF ChunkEnd(sw_current, sw_in.chunk_size, sw_in.end_line)
                     >= sw_in.end_line
                THEN "done" ELSE "loop"
    /\ UNCHANGED <<sw_in, resolverVars, embedVars, otherVars>>

\* one iteration of the while loop (lines 344-359)
SlideWindow ==
    /\ sw_pc = "loop"
    /\ sw_current < sw_in.end_line
    /\ sw_chunks' = Append(sw_chunks,
                           ChunkAt(sw_current, sw_in.chunk_size, sw_in.end_line))
    /\ sw_current' = sw_current + (sw_in.chunk_size - sw_in.overlap)
    /\ sw_pc' = IF ChunkEnd(sw_current, sw_in.chunk_size, sw_in.end_line)
                     >= sw_in.end_line
                THEN "done" ELSE "loop"
    /\ UNCHANGED <<sw_in, resolverVars, embedVars, otherVars>>

\* the loop condition fails; return chunks (line 361)
SlideReturn ==
    /\ sw_pc = "loop"
    /\ ~(sw_current < sw_in.end_line)
    /\ sw_pc' = "done"
    /\ UNCHANGED <<sw_in, sw_current, sw_chunks, resolverVars, embedVars, otherVars>>

NextChunk == SlideWindow \/ SlideReturn

SpecChunk == InitChunk /\ [][NextChunk]_vars

\* the list _create_sliding_window_chunks returns, as a function of its
\* arguments: the loop above run to its end
RECURSIVE SlidingFrom(_, _, _, _)
SlidingFrom(current, end_line, chunk_size, overlap) ==
    IF ~(current < end_line) THEN <<>>
    ELSE <<ChunkAt(current, chunk_size, end_line)>> \o
         (IF ChunkEnd(current, chunk_size, end_line) >= end_line THEN <<>>
          ELSE SlidingFrom(current + (chunk_size - overlap), end_line,
                           chunk_size, overlap))

CreateSlidingWindowChunks(start_line, end_line, chunk_size, overlap) ==
    SlidingFrom(start_line, end_line, chunk_size, overlap)

(***************************************************************************)
(* Claims about the sliding window                                         *)
(***************************************************************************)
ProductionWindow == sw_in.chunk_size = ChunkSize /\ sw_in.overlap = Overlap

\* C5: a class spanning lines 1..1600 with window 700 and overlap 100 yields
\* exactly the chunks [1,700], [601,1300], [1201,1600].
C5_ChunkingLaw ==
    (/\ sw_pc = "done" /\ ProductionWindow
     /\ sw_in.start_line = 1 /\ sw_in.end_line = 1600) =>
        sw_chunks = << [start |-> 1,    end |-> 700],
                       [start |-> 601,  end |-> 1300],
                       [start |-> 1201, end |-> 1600] >>

\* what the code returns for that class: every non-final chunk holds 701 lines
C5_CodeBehaviour ==
    (/\ sw_pc = "done" /\ ProductionWindow
     /\ sw_in.start_line = 1 /\ sw_in.end_line = 1600) =>
        sw_chunks = << [start |-> 1,    end |-> 701],
                       [start |-> 601,  end |-> 1301],
                       [start |-> 1201, end |-> 1600] >>

\* C6: for a class longer than the window, consecutive chunks start at
\* strictly increasing lines and no chunk ends after the class end.
C6_WindowMonotone ==
    (sw_pc \in {"loop", "done"}
       /\ sw_in.end_line - sw_in.start_line + 1 > sw_in.chunk_size) =>
        /\ \A i \in 1..(Len(sw_chunks) - 1) :
              sw_chunks[i].start < sw_chunks[i + 1].start
        /\ \A i \in 1..Len(sw_chunks) : sw_chunks[i].end <= sw_in.end_line

C6_Witness ==
    /\ sw_pc = "done" /\ ProductionWindow
    /\ sw_in.start_line = 1 /\ sw_in.end_line = 1600
    /\ Len(sw_chunks) = 3
    /\ sw_chunks[3].end = sw_in.end_line

(***************************************************************************)
(* Parsers: the function and class records of a source file                *)
(*                                                                         *)
(* A source file is given by its syntax tree: the module body, a sequence  *)
(* of items [kind, name, line_start, line_end, methods], where the methods *)
(* of a class are the function definitions in its body.                    *)
(***************************************************************************)
\* f.get('parent_class') of a record without that key
NoClass == "None"

RECURSIVE FlatMap(_, _)
FlatMap(F(_), seq) ==
    IF seq = <<>> THEN <<>> ELSE F(Head(seq)) \o FlatMap(F, Tail(seq))

SelectKind(body, kind) == SelectSeq(body, LAMBDA it : it.kind = kind)

\* PythonParser._extract_functions: ast.walk visits every FunctionDef, the
\* module-level ones first, then those in class bodies; line_end is lineno
\* and no parent_class is recorded
PyFunctionRecord(node) ==
    [name |-> node.name, line_start |-> node.line_start,
     line_end |-> node.line_start, parent_class |-> NoClass]

PyMethodsOf(it)    == [i \in 1..Len(it.methods) |-> PyFunctionRecord(it.methods[i])]
PyTopFunction(it)  == <<PyFunctionRecord(it)>>

PythonExtractFunctions(body) ==
    FlatMap(PyTopFunction, SelectKind(body, "function"))
        \o FlatMap(PyMethodsOf, SelectKind(body, "class"))

\* PythonParser._extract_classes
PyClassRecord(it) ==
    << [name |-> it.name, line_start |-> it.line_start, line_end |-> it.line_end,
        methods |-> [i \in 1..Len(it.methods) |-> it.methods[i].name]] >>

PythonExtractClasses(body) == FlatMap(PyClassRecord, SelectKind(body, "class"))

\* TreeSitterParser._traverse_functions: depth-first, every function and
\* method node, with its end line, without parent_class
TsFunctionRecord(node) ==
    [name |-> node.name, line_start |-> node.line_start,
     line_end |-> node.line_end, parent_class |-> NoClass]

TsFunctionsOf(it) ==
    IF it.kind = "function" THEN <<TsFunctionRecord(it)>>
    ELSE [i \in 1..Len(it.methods) |-> TsFunctionRecord(it.methods[i])]

TreeSitterExtractFunctions(body) == FlatMap(TsFunctionsOf, body)

\* TreeSitterParser._traverse_classes: methods is always []
TsClassRecord(it) ==
    << [name |-> it.name, line_start |-> it.line_start, line_end |-> it.line_end,
        methods |-> <<>>] >>

TreeSitterExtractClasses(body) == FlatMap(TsClassRecord, SelectKind(body, "class"))

\* the parsed fields of a file document (update_parsed_data stores them)
ParseFile(parser, body) ==
    IF parser = "python"
    THEN [functions |-> PythonExtractFunctions(body),
          classes   |-> PythonExtractClasses(body)]
    ELSE [functions |-> TreeSitterExtractFunctions(body),
          classes   |-> TreeSitterExtractClasses(body)]

(***************************************************************************)
(* EmbeddingService: the units of one file                                 *)
(***************************************************************************)
\* the class_size limit of a class embedded whole (line 184)
WholeClassLimit == 800
\* BATCH_SIZE (line 123)
BATCH_SIZE == 8

\* class_size (line 182)
ClassSize(cls) == cls.line_end - cls.line_start

\* the encode calls one class leads to (lines 181-241): the class itself, or
\* its sliding-window chunks
ClassUnits(cls) ==
    IF ClassSize(cls) <= WholeClassLimit
    THEN << [type |-> "class", name |-> cls.name, parent_class |-> NoClass,
             line_start |-> cls.line_start, line_end |-> cls.line_end,
             chunk_index |-> 0, total_chunks |-> 0] >>
    ELSE LET chunks == CreateSlidingWindowChunks(cls.line_start, cls.line_end,
                                                 ChunkSize, Overlap)
         IN  [i \in 1..Len(chunks) |->
                [type |-> "class_chunk", name |-> cls.name, parent_class |-> cls.name,
                 line_start |-> chunks[i].start, line_end |-> chunks[i].end,
                 chunk_index |-> i, total_chunks |-> Len(chunks)]]

\* standalone_functions (line 245)
StandaloneFunctions(functions) ==
    SelectSeq(functions, LAMBDA f : f.parent_class = NoClass)

FunctionUnit(f) ==
    << [type |-> "function", name |-> f.name, parent_class |-> NoClass,
        line_start |-> f.line_start, line_end |-> f.line_end,
        chunk_index |-> 0, total_chunks |-> 0] >>

SummaryUnit ==
    [type |-> "summary", name |-> "summary", parent_class |-> NoClass,
     line_start |-> 0, line_end |-> 0, chunk_index |-> 0, total_chunks |-> 0]

\* the encode calls of _generate_embeddings_for_file in program order:
\* classes (lines 181-241), standalone functions (247-270), summary (275-283)
Units(file) ==
    FlatMap(ClassUnits, file.classes)
        \o FlatMap(FunctionUnit, StandaloneFunctions(file.functions))
        \o (IF file.summary THEN <<SummaryUnit>> ELSE <<>>)

(***************************************************************************)
(* Bounded inputs of an embedding run                                      *)
(***************************************************************************)
\* class spans within SpanSlack lines of the whole-class limit are drawn
SpanSlack == 2

Method(name, a, b) == [name |-> name, line_start |-> a, line_end |-> b]
FunctionItem(name, a, b) ==
    [kind |-> "function", name |-> name, line_start |-> a, line_end |-> b,
     methods |-> <<>>]
ClassItem(name, a, b, methods) ==
    [kind |-> "class", name |-> name, line_start |-> a, line_end |-> b,
     methods |-> methods]

EmptyBody == <<>>
\* def f(): ... on lines 1-3
OneFunctionBody == << FunctionItem("f", 1, 3) >>
\* class K (lines 1-10) with method m (lines 2-4), then function g (12-14)
ClassAndFunctionBody ==
    << ClassItem("K", 1, 10, << Method("m", 2, 4) >>), FunctionItem("g", 12, 14) >>
\* a class of n lines starting at line 1 with one method on lines 2-3
BigClassBody(n) == << ClassItem("Big", 1, n, << Method("m", 2, 3) >>) >>

ClassSpans ==
    (WholeClassLimit - SpanSlack)..(WholeClassLimit + SpanSlack) \cup {1600}

Bodies ==
    {EmptyBody, OneFunctionBody, ClassAndFunctionBody}
        \cup {BigClassBody(n) : n \in ClassSpans}

\* a stored EmbeddingRecord of an earlier run
OldRecord ==
    [type |-> "function", name |-> "old", parent_class |-> NoClass,
     line_start |-> 1, line_end |-> 1, chunk_index |-> 0, total_chunks |-> 0]

\* a file document as the embedding run reads it
FileDoc(id, parser, body, content, summary, parsed) ==
    [file_id |-> id, parser |-> parser, body |-> body,
     content |-> content, summary |-> summary, parsed |-> parsed,
     functions |-> ParseFile(parser, body).functions,
     classes   |-> ParseFile(parser, body).classes]

\* repositories of one file: any body, parser, summary, content, parsed flag
SingleFileRepos ==
    { << FileDoc(1, parser, body, content, summary, parsed) >> :
        parser \in {"python", "treesitter"}, body \in Bodies,
        content \in BOOLEAN, summary \in BOOLEAN, parsed \in BOOLEAN }

\* repositories of two files embedded concurrently in one batch
TwoFileRepos ==
    { << FileDoc(1, "python", b1, TRUE, s1, TRUE),
         FileDoc(2, "treesitter", b2, TRUE, FALSE, TRUE) >> :
        b1 \in {OneFunctionBody, ClassAndFunctionBody},
        b2 \in {EmptyBody, OneFunctionBody}, s1 \in BOOLEAN }

\* a repository of BATCH_SIZE + 1 files, so that a second batch runs: the
\* first two files and the last hold one function, the others nothing to embed
ManyFileRepo ==
    [k \in 1..(BATCH_SIZE + 1) |->
        FileDoc(k, "python",
                IF k \in {1, 2, BATCH_SIZE + 1} THEN OneFunctionBody ELSE EmptyBody,
                TRUE, FALSE, TRUE)]

EmbedRepos == {<<>>} \cup SingleFileRepos \cup TwoFileRepos \cup {ManyFileRepo}

\* documents of the store before the run: no or one EmbeddingRecord per file,
\* the same choice for every file
StoreBefore(fs, prior) ==
    [id \in {fs[k].file_id : k \in 1..Len(fs)} |->
        [embeddings |-> prior, summary_embedding |-> "none", embedded |-> prior # <<>>]]

(***************************************************************************)
(* EmbeddingService.generate_embeddings_for_repository as a state machine  *)
(***************************************************************************)
\* ProviderConfig.PROVIDERS: provider name -> default embedding model
PROVIDERS ==
    [openai    |-> "text-embedding-3-small",
     gemini    |-> "text-embedding-004",
     together  |-> "togethercomputer/m2-bert-80M-32k-retrieval",
     fireworks |-> "nomic-ai/nomic-embed-text-v1.5"]

\* str.lower on the provider names drawn
Lower(provider) == IF provider = "OpenAI" THEN "openai" ELSE provider

\* ProviderConfig.get_provider_config(provider)["embedding_model"]
EmbeddingModel(provider) == PROVIDERS[Lower(provider)]

\* the number of components a provider's model returns when the request
\* names no dimension: 1536 for text-embedding-3-small, 768 for the others
DefaultDimension(model) ==
    IF model = "text-embedding-3-small" THEN 1536 ELSE 768

\* EmbeddingService.__init__: the local model, or a provider that
\* get_provider_config accepts
CodeBertBackend == [use_codebert |-> TRUE, provider |-> "unset", model |-> "None"]
ProviderBackend(provider) ==
    [use_codebert |-> FALSE, provider |-> provider, model |-> "None"]
ProviderNames == {"openai", "OpenAI", "gemini"}
Backends == {CodeBertBackend} \cup {ProviderBackend(p) : p \in ProviderNames}

\* _load_model: only the local model is loaded, and only once
NeedsLoad(backend) == backend.use_codebert /\ backend.model = "None"
LoadModel(backend) == [backend EXCEPT !.model = "loaded"]

\* the length of the vector _encode_text returns: the local model's 768
\* components; the 768 requested of provider "openai"; the model's default
\* for any other provider
EncodeText(backend) ==
    IF backend.use_codebert THEN 768
    ELSE IF backend.provider = "openai" THEN 768
    ELSE DefaultDimension(EmbeddingModel(backend.provider))

\* FileService.get_files_by_repo_with_content: the file documents of the
\* repository with their content
GetFilesByRepoWithContent(fs) == fs

\* parsed_files (line 119)
ParsedFiles(fs) == SelectSeq(fs, LAMBDA f : f.parsed)

\* the parameters FileService.update_embeddings declares after self
update_embeddings_params == <<"file_id", "embeddings">>
\* the arguments _generate_embeddings_for_file passes (line 292)
update_embeddings_args == <<"file_id", "embeddings", "summary_embedding">>

\* a call binds when every positional argument has a parameter and every
\* parameter (none has a default) an argument; otherwise it raises TypeError
CallBinds(params, args) == Len(args) = Len(params)

\* FileService.update_embeddings: $set embeddings and embedded
UpdateEmbeddings(db, file_id, embeddings) ==
    [db EXCEPT ![file_id] = [@ EXCEPT !.embeddings = embeddings, !.embedded = TRUE]]

\* the state of one _generate_embeddings_for_file call
NewTask(file) ==
    [pc |-> IF ~file.content THEN "done"
            ELSE IF Units(file) = <<>> THEN "save" ELSE "units",
     u |-> 1,
     embeddings |-> <<>>,
     summary_embedding |-> "none",
     encoded |-> {},
     vectors |-> {},
     result |-> FALSE]

NotStarted ==
    [pc |-> "new", u |-> 1, embeddings |-> <<>>, summary_embedding |-> "none",
     encoded |-> {}, vectors |-> {}, result |-> FALSE]

\* a batch that is not cut at BATCH_SIZE files
BatchOfUnbounded(i, total) == (i + 1)..total

\* indices (1-based) of the files of the batch that starts at em_i
BatchOf(i, total) == (i + 1)..Min(i + BATCH_SIZE, total)

InitEmbed ==
    /\ em_files \in EmbedRepos
    /\ \E prior \in {<<>>, <<OldRecord>>} : em_db = StoreBefore(em_files, prior)
    /\ em_pc = "start"
    /\ em_i = 0
    /\ em_task = <<>>
    /\ em_count = 0
    /\ em_backend \in Backends
    /\ IdleResolver /\ IdleChunk /\ IdleOther

\* lines 105-125: load the model (first time only), which may raise; fetch
\* the files; return when there are none
EmbedStartRun ==
    /\ em_pc = "start"
    /\ \E loads \in BOOLEAN :
          LET loading == NeedsLoad(em_backend)
              fetched == GetFilesByRepoWithContent(em_files)
          IN  IF loading /\ ~loads
              THEN /\ em_pc' = "raised"
                   /\ UNCHANGED <<em_task, em_backend>>
              ELSE /\ em_backend' = IF loading THEN LoadModel(em_backend)
                                                ELSE em_backend
                   /\ IF fetched = <<>>
                      THEN /\ em_pc' = "done"
                           /\ UNCHANGED em_task
                      ELSE /\ em_pc' = "batch"
                           /\ em_task' = [k \in 1..Len(ParsedFiles(fetched)) |->
                                            NotStarted]
    /\ UNCHANGED <<em_files, em_db, em_i, em_count, resolverVars, chunkVars, otherVars>>

\* lines 127-138: the calls of one batch are created and gathered; each runs
\* to its first await (lines 169-177)
EmbedStartBatch ==
    /\ em_pc = "batch"
    /\ em_i < Len(ParsedFiles(em_files))
    /\ em_task' = [k \in DOMAIN em_task |->
                     IF k \in BatchOf(em_i, Len(ParsedFiles(em_files)))
                     THEN NewTask(ParsedFiles(em_files)[k]) ELSE em_task[k]]
    /\ em_pc' = "gather"
    /\ UNCHANGED <<em_files, em_backend, em_db, em_i, em_count, resolverVars, chunkVars, otherVars>>

\* a call reaches `await self._encode_text(...)` (lines 193, 223, 255, 277)
EmbedEncodeCall(k) ==
    /\ em_pc = "gather"
    /\ em_task[k].pc = "units"
    /\ em_task' = [em_task EXCEPT ![k].pc = "awaiting"]
    /\ UNCHANGED <<em_files, em_backend, em_db, em_pc, em_i, em_count, resolverVars, chunkVars, otherVars>>

\* the state of a call after its encode call returned a vector of the given
\* length (ok) or raised, which the unit's own except clause absorbs; vectors
\* holds, per unit, the length of the vector put in its record
AfterEncode(file, task, ok, length) ==
    LET unit == Units(file)[task.u]
        last == task.u = Len(Units(file))
    IN  [task EXCEPT
           !.pc = IF last THEN "save" ELSE "units",
           !.u  = @ + 1,
           !.embeddings = IF ok /\ unit.type # "summary"
                          THEN Append(@, unit) ELSE @,
           !.summary_embedding = IF ok /\ unit.type = "summary" THEN "vector" ELSE @,
           !.encoded = IF ok THEN @ \cup {task.u} ELSE @,
           !.vectors = IF ok THEN @ \cup {<<task.u, length>>} ELSE @]

\* _encode_text returns or raises
EmbedEncodeReturn(k) ==
    /\ em_pc = "gather"
    /\ em_task[k].pc = "awaiting"
    /\ \E ok \in BOOLEAN :
          em_task' = [em_task EXCEPT
                        ![k] = AfterEncode(ParsedFiles(em_files)[k], em_task[k], ok,
                                           EncodeText(em_backend))]
    /\ UNCHANGED <<em_files, em_backend, em_db, em_pc, em_i, em_count, resolverVars, chunkVars, otherVars>>

\* lines 288-301: the save; the TypeError of a call that does not bind is
\* caught by the except clause of line 299, which returns False
EmbedSave(k) ==
    /\ em_pc = "gather"
    /\ em_task[k].pc = "save"
    /\ LET t == em_task[k]
           saving == t.embeddings # <<>> \/ t.summary_embedding # "none"
           binds  == CallBinds(update_embeddings_params, update_embeddings_args)
       IN  /\ em_db' = IF saving /\ binds
                       THEN UpdateEmbeddings(em_db, ParsedFiles(em_files)[k].file_id,
                                             t.embeddings)
                       ELSE em_db
           /\ em_task' = [em_task EXCEPT ![k].pc = "done",
                                         ![k].result = saving /\ binds]
    /\ UNCHANGED <<em_files, em_backend, em_pc, em_i, em_count, resolverVars, chunkVars, otherVars>>

\* lines 140-143: gather returned; count the successes, next batch
EmbedCollect ==
    /\ em_pc = "gather"
    /\ \A k \in BatchOf(em_i, Len(ParsedFiles(em_files))) : em_task[k].pc = "done"
    /\ em_count' = em_count + Cardinality(
           {k \in BatchOf(em_i, Len(ParsedFiles(em_files))) : em_task[k].result})
    /\ em_i' = em_i + BATCH_SIZE
    /\ em_pc' = "batch"
    /\ UNCHANGED <<em_files, em_backend, em_db, em_task, resolverVars, chunkVars, otherVars>>

\* lines 145-146: the batch loop is exhausted
EmbedFinish ==
    /\ em_pc = "batch"
    /\ em_i >= Len(ParsedFiles(em_files))
    /\ em_pc' = "done"
    /\ UNCHANGED <<em_files, em_backend, em_db, em_i, em_task, em_count, resolverVars, chunkVars, otherVars>>

NextEmbed ==
    \/ EmbedStartRun
    \/ EmbedStartBatch
    \/ \E k \in DOMAIN em_task : EmbedEncodeCall(k)
    \/ \E k \in DOMAIN em_task : EmbedEncodeReturn(k)
    \/ \E k \in DOMAIN em_task : EmbedSave(k)
    \/ EmbedCollect
    \/ EmbedFinish

SpecEmbed == InitEmbed /\ [][NextEmbed]_vars

(***************************************************************************)
(* Claims about the embedding run                                          *)
(***************************************************************************)
FileOfTask(k) == ParsedFiles(em_files)[k]

\* the class items of a file's syntax tree
ClassItems(file) == Range(SelectKind(file.body, "class"))

\* lines of a class, 1-indexed inclusive
Span(item) == item.line_end - item.line_start + 1

\* a function record that stems from a method of a class of the file
IsMethodOf(file, r) ==
    \E c \in ClassItems(file) : \E i \in 1..Len(c.methods) :
        c.methods[i].name = r.name /\ c.methods[i].line_start = r.line_start

\* C7: a class yields a whole 'class' record only when its span is at most
\* 800 lines and 'class_chunk' records only when its span exceeds 800 lines
\* (800 lines: whole; 801 lines: chunked).
C7_WholeIffSpanAtMost800 ==
    \A k \in DOMAIN em_task :
        \A r \in Range(em_task[k].embeddings) :
            \A c \in ClassItems(FileOfTask(k)) :
                c.name = r.name =>
                    /\ r.type = "class" => Span(c) <= 800
                    /\ r.type = "class_chunk" => Span(c) > 800

\* what the code does: the limit applies to line_end - line_start, so a
\* class of 801 lines is still embedded whole
C7_CodeBehaviour ==
    \A k \in DOMAIN em_task :
        \A r \in Range(em_task[k].embeddings) :
            \A c \in ClassItems(FileOfTask(k)) :
                c.name = r.name =>
                    /\ r.type = "class" => Span(c) <= 801
                    /\ r.type = "class_chunk" => Span(c) > 801

\* C8: a method of a class never yields a 'function' record of its own.
C8_NoMethodRecords ==
    \A k \in DOMAIN em_task :
        \A r \in Range(em_task[k].embeddings) :
            r.type = "function" => ~IsMethodOf(FileOfTask(k), r)

\* C9: when the run has completed, the stored EmbeddingRecord list of every
\* parsed file (with content) is exactly the list this run produced for it,
\* also when that list is shorter than the stored one or empty, and no
\* summary vector is an element of the list.
C9_StoredIsThisRun ==
    em_pc = "done" =>
        \A k \in DOMAIN em_task :
            FileOfTask(k).content =>
                /\ em_db[FileOfTask(k).file_id].embeddings = em_task[k].embeddings
                /\ \A r \in Range(em_db[FileOfTask(k).file_id].embeddings) :
                      r.type # "summary"

\* C10: when an encode call of a file failed, every other unit of the file
\* whose encode call succeeded is recorded for the file, and the run went
\* through every file of every batch.
C10_OnlyFailedUnitSkipped ==
    em_pc = "done" =>
        \A k \in DOMAIN em_task :
            /\ em_task[k].pc = "done"
            /\ (FileOfTask(k).content
                  /\ em_task[k].encoded # 1..Len(Units(FileOfTask(k)))) =>
                  /\ \A r \in Range(em_task[k].embeddings) :
                        r \in Range(em_db[FileOfTask(k).file_id].embeddings)
                  /\ em_task[k].summary_embedding = "vector" =>
                        em_db[FileOfTask(k).file_id].summary_embedding = "vector"

\* the part of C10 the code does implement: a failed encode call neither
\* stops the units after it nor the other files nor the later batches
C10_RunContinues ==
    em_pc = "done" =>
        \A k \in DOMAIN em_task :
            /\ em_task[k].pc = "done"
            /\ FileOfTask(k).content =>
                  /\ em_task[k].u = Len(Units(FileOfTask(k))) + 1
                  /\ \A i \in em_task[k].encoded :
                        LET unit == Units(FileOfTask(k))[i]
                        IN  IF unit.type = "summary"
                            THEN em_task[k].summary_embedding = "vector"
                            ELSE unit \in Range(em_task[k].embeddings)

\* encode calls of the run that have returned or raised, and those that
\* returned a vector
EncodeCallsMade ==
    UNION { {<<k, i>> : i \in 1..(em_task[k].u - 1)} : k \in DOMAIN em_task }
EncodeCallsSucceeded ==
    {c \in EncodeCallsMade : c[2] \in em_task[c[1]].encoded}

\* C11: a run in which every encode call failed (at least one was made) does
\* not return normally; it surfaces a failure to its caller.
C11_UnreachableBackendSurfaces ==
    (EncodeCallsMade # {} /\ EncodeCallsSucceeded = {}) => em_pc # "done"

\* what the code does: the run raises only when the local model cannot be
\* loaded, before any file is embedded; failed encode calls never raise
C11_CodeBehaviour ==
    em_pc = "raised" => (em_backend.use_codebert /\ em_task = <<>>)

\* files whose _generate_embeddings_for_file call has started and not
\* returned, and those of them with an encode call outstanding
InFlight == {k \in DOMAIN em_task : em_task[k].pc \notin {"new", "done"}}
Outstanding == {k \in DOMAIN em_task : em_task[k].pc = "awaiting"}
BatchNumber(k) == (k - 1) \div BATCH_SIZE

\* C12: no file of a later batch has started while a file of an earlier
\* batch has not returned, at most 8 files are in flight, and at most 8
\* encode calls are outstanding.
C12_BatchBarrier ==
    /\ \A j, k \in DOMAIN em_task :
          (BatchNumber(j) < BatchNumber(k) /\ em_task[k].pc # "new")
              => em_task[j].pc = "done"
    /\ Cardinality(InFlight) <= 8
    /\ Cardinality(Outstanding) <= 8

\* a full batch of 8 files in flight, two encode calls outstanding at the
\* same time, and the file of the second batch not started
C12_Witness ==
    /\ Cardinality(InFlight) = 8
    /\ Cardinality(Outstanding) = 2
    /\ Len(em_task) = 9 /\ em_task[9].pc = "new"

\* C13: every vector put in an EmbeddingRecord or kept as a summary vector
\* has exactly 768 components, whichever backend produced it.
C13_VectorsHave768Components ==
    \A k \in DOMAIN em_task : \A v \in em_task[k].vectors : v[2] = 768

\* what the code does: only a provider named exactly "openai" is asked for
\* 768 components; any other provider's default length is kept
C13_CodeBehaviour ==
    \A k \in DOMAIN em_task : \A v \in em_task[k].vectors :
        v[2] = IF em_backend.use_codebert \/ em_backend.provider = "openai"
               THEN 768
               ELSE DefaultDimension(EmbeddingModel(em_backend.provider))

(***************************************************************************)
(* services/keyword_scorer.py                                              *)
(*                                                                         *)
(* A score is an exact rational <<numerator, denominator>> in lowest       *)
(* terms with a positive denominator.  A text is a sequence of tokens: a   *)
(* word (a maximal run of letters and digits) or one other character.      *)
(***************************************************************************)
RECURSIVE GCD(_, _)
GCD(a, b) == IF b = 0 THEN a ELSE GCD(b, a % b)

Abs(n) == IF n < 0 THEN -n ELSE n

Rat(n, d) ==
    LET g == GCD(Abs(n), d) IN IF n = 0 THEN <<0, 1>> ELSE <<n \div g, d \div g>>
Whole(n) == <<n, 1>>
RAdd(x, y) == Rat(x[1] * y[2] + y[1] * x[2], x[2] * y[2])
RSub(x, y) == Rat(x[1] * y[2] - y[1] * x[2], x[2] * y[2])
RMul(x, y) == Rat(x[1] * y[1], x[2] * y[2])
\* x / y for y > 0
RDiv(x, y) == Rat(x[1] * y[2], x[2] * y[1])
RLe(x, y)  == x[1] * y[2] <= y[1] * x[2]
RMin(x, y) == IF RLe(x, y) THEN x ELSE y

\* the BM25 parameters of __init__ and the default weights and boost factor
self_k1 == Rat(3, 2)
self_b  == Rat(3, 4)
path_weight       == Rat(5, 10)
summary_weight    == Rat(3, 10)
code_names_weight == Rat(2, 10)
vector_weight     == Rat(7, 10)
keyword_weight    == Rat(3, 10)
boost_factor      == Rat(13, 10)

\* str.lower on the words drawn
LowerWord(w) ==
    CASE w = "RDB" -> "rdb"
      [] w = "How" -> "how"
      [] w = "RdbParser" -> "rdbparser"
      [] OTHER -> w

\* characters that are not letters or digits; of these only "_" is a word
\* character of the regular expression, so that no \b lies next to it
NonAlnum == {" ", "/", ".", "-", "?", "_"}
WordChar == {"_"}

\* len(t) < 2 on the words drawn
OneCharWords == {"a", "x", "y"}

stop_words ==
    {"the", "a", "an", "and", "or", "but", "in", "on", "at", "to", "for",
     "of", "with", "by", "from", "as", "is", "was", "are", "been", "be",
     "have", "has", "had", "do", "does", "did", "will", "would", "could",
     "should", "may", "might", "can", "this", "that", "these", "those",
     "how", "what", "where", "when", "why", "who", "which"}

\* re.findall(r'\b[a-z0-9]+\b', text.lower()): the words with a word
\* boundary on both sides
FindAllWords(text) ==
    LET bounded(i) ==
            /\ text[i] \notin NonAlnum
            /\ (i > 1 => text[i - 1] \notin WordChar)
            /\ (i < Len(text) => text[i + 1] \notin WordChar)
        RECURSIVE from(_)
        from(i) == IF i > Len(text) THEN <<>>
                   ELSE IF bounded(i) THEN <<LowerWord(text[i])>> \o from(i + 1)
                   ELSE from(i + 1)
    IN  from(1)

\* KeywordScorer.extract_terms
ExtractTerms(text) ==
    IF text = <<>> THEN <<>>
    ELSE SelectSeq(FindAllWords(text),
                   LAMBDA w : w \notin stop_words /\ w \notin OneCharWords)

\* Counter(document_terms)[term]
TermCount(terms, term) == Cardinality({i \in 1..Len(terms) : terms[i] = term})

\* term_score of one query term with term frequency tf
TermScore(tf, doc_length, avg_doc_length) ==
    LET idf == Whole(1)
        length_norm == RAdd(RSub(Whole(1), self_b),
                            RMul(self_b, RDiv(Whole(doc_length), Whole(avg_doc_length))))
    IN  RDiv(RMul(idf, RMul(Whole(tf), RAdd(self_k1, Whole(1)))),
             RAdd(Whole(tf), RMul(self_k1, length_norm)))

\* the sum of the term scores of the query terms that occur in the document
RECURSIVE SumTermScores(_, _, _)
SumTermScores(query_set, document_terms, avg_doc_length) ==
    IF query_set = {} THEN Whole(0)
    ELSE LET term == CHOOSE w \in query_set : TRUE
             rest == SumTermScores(query_set \ {term}, document_terms,
                                   avg_doc_length)
             tf   == TermCount(document_terms, term)
         IN  IF tf = 0 THEN rest
             ELSE RAdd(TermScore(tf, Len(document_terms), avg_doc_length), rest)

\* the score before the cap: the sum divided by the number of query terms
RawBm25(query_terms, document_terms, avg_doc_length) ==
    RDiv(SumTermScores(Range(query_terms), document_terms, avg_doc_length),
         Whole(Cardinality(Range(query_terms))))

\* calculate_bm25_score without the cap of its last line
CalculateBm25Uncapped(query_terms, document_terms, avg_doc_length) ==
    IF query_terms = <<>> \/ document_terms = <<>> THEN Whole(0)
    ELSE RawBm25(query_terms, document_terms, avg_doc_length)

\* KeywordScorer.calculate_bm25_score
CalculateBm25Score(query_terms, document_terms, avg_doc_length) ==
    IF query_terms = <<>> \/ document_terms = <<>> THEN Whole(0)
    ELSE RMin(RawBm25(query_terms, document_terms, avg_doc_length), Whole(1))

\* " ".join(code_names)
RECURSIVE JoinNames(_)
JoinNames(names) ==
    IF names = <<>> THEN <<>>
    ELSE IF Len(names) = 1 THEN <<Head(names)>>
    ELSE <<Head(names), " ">> \o JoinNames(Tail(names))

\* KeywordScorer.score_document
ScoreDocumentOf(query, file_path, summary, code_names) ==
    LET query_terms == ExtractTerms(query)
        path_score == CalculateBm25Score(query_terms, ExtractTerms(file_path), 10)
        summary_score == CalculateBm25Score(query_terms, ExtractTerms(summary), 100)
        code_names_score ==
            IF code_names # <<>>
            THEN CalculateBm25Score(query_terms,
                                    ExtractTerms(JoinNames(code_names)), 20)
            ELSE Whole(0)
    IN  IF query_terms = <<>>
        THEN [keyword_score |-> Whole(0), path_score |-> Whole(0),
              summary_score |-> Whole(0), code_names_score |-> Whole(0)]
        ELSE [keyword_score |->
                  RAdd(RAdd(RMul(path_weight, path_score),
                            RMul(summary_weight, summary_score)),
                       RMul(code_names_weight, code_names_score)),
              path_score |-> path_score,
              summary_score |-> summary_score,
              code_names_score |-> code_names_score]

\* file_path.split('/')[-1]
BareFilename(file_path) ==
    LET parts == Split(file_path, "/") IN parts[Len(parts)]

\* the query terms that occur among the terms of the bare filename
MatchingTerms(query, file_path) ==
    Range(ExtractTerms(query)) \cap Range(ExtractTerms(BareFilename(file_path)))

\* apply_filename_boost with a multiplier that scales the score down
ApplyFilenameBoostDamping(query, file_path, base_score, factor) ==
    IF MatchingTerms(query, file_path) # {}
    THEN RMin(RMul(base_score, RSub(factor, Whole(1))), Whole(1))
    ELSE base_score

\* KeywordScorer.apply_filename_boost
ApplyFilenameBoostOf(query, file_path, base_score, factor) ==
    LET query_terms == Range(ExtractTerms(query))
        matching_terms == MatchingTerms(query, file_path)
    IN  IF matching_terms # {}
        THEN LET boost_multiplier ==
                     RAdd(Whole(1),
                          RMul(RDiv(Whole(Cardinality(matching_terms)),
                                    Whole(Cardinality(query_terms))),
                               RSub(factor, Whole(1))))
             IN  RMin(RMul(base_score, boost_multiplier), Whole(1))
        ELSE base_score

\* hybrid_score
HybridScoreOf(vector_score, keyword_score, vweight, kweight) ==
    LET total_weight == RAdd(vweight, kweight)
    IN  RAdd(RMul(RDiv(vweight, total_weight), vector_score),
             RMul(RDiv(kweight, total_weight), keyword_score))

(***************************************************************************)
(* Bounded inputs of the scorer                                            *)
(***************************************************************************)
\* vector and base scores are the multiples of 1/ScoreGrid in [0, 1]
ScoreGrid == 4
ScoreValues == {Rat(n, ScoreGrid) : n \in 0..ScoreGrid}

Queries ==
    { <<>>,
      <<"the", " ", "a">>,
      <<"x", " ", "y">>,
      <<"rdb", "_", "parser">>,
      <<"rdb">>,
      <<"rdb", " ", "parser">>,
      <<"How", " ", "does", " ", "the", " ", "RDB", " ", "parser", " ", "work", "?">> }

FilePaths ==
    { <<"app", "/", "rdb", "-", "parser", ".", "ts">>,
      <<"rdb", ".", "ts">>,
      <<"rdb", "/", "util", ".", "ts">>,
      <<"src", "/", "util", ".", "py">>,
      <<"rdb", "_", "parser", ".", "ts">> }

Summaries ==
    { <<>>,
      <<"parser", " ", "of", " ", "rdb", " ", "files">>,
      <<"the", " ", "rdb", " ", "util">> }

\* code_names: no name, one class name, two function names
CodeNames == { <<>>, <<"RdbParser">>, <<"rdb", "parse">> }

NoScores ==
    [keyword_score |-> Whole(0), path_score |-> Whole(0),
     summary_score |-> Whole(0), code_names_score |-> Whole(0)]

(***************************************************************************)
(* The scorer as a state machine: each of the three operations is applied  *)
(* once to the arguments drawn                                             *)
(***************************************************************************)
InitScore ==
    /\ sc_in \in [query : Queries, file_path : FilePaths, summary : Summaries,
                  code_names : CodeNames,
                  vector_score : ScoreValues, base_score : ScoreValues]
    /\ sc_out = [scores |-> NoScores, hybrid |-> Whole(0), boosted |-> Whole(0)]
    /\ sc_pc = {}
    /\ IdleResolver /\ IdleChunk /\ IdleEmbed /\ IdleParse /\ IdleService

\* scorer.score_document(query, file_path, summary, code_names)
ScoreDocument ==
    /\ "score_document" \notin sc_pc
    /\ sc_out' = [sc_out EXCEPT !.scores =
                     ScoreDocumentOf(sc_in.query, sc_in.file_path, sc_in.summary,
                                     sc_in.code_names)]
    /\ sc_pc' = sc_pc \cup {"score_document"}
    /\ UNCHANGED <<sc_in, resolverVars, chunkVars, embedVars, parseVars, serviceVars>>

\* hybrid_score(vector_score, keyword_score) with the default weights
HybridScore ==
    /\ "score_document" \in sc_pc
    /\ "hybrid_score" \notin sc_pc
    /\ sc_out' = [sc_out EXCEPT !.hybrid =
                     HybridScoreOf(sc_in.vector_score, sc_out.scores.keyword_score,
                                   vector_weight, keyword_weight)]
    /\ sc_pc' = sc_pc \cup {"hybrid_score"}
    /\ UNCHANGED <<sc_in, resolverVars, chunkVars, embedVars, parseVars, serviceVars>>

\* scorer.apply_filename_boost(query, file_path, base_score)
ApplyFilenameBoost ==
    /\ "apply_filename_boost" \notin sc_pc
    /\ sc_out' = [sc_out EXCEPT !.boosted =
                     ApplyFilenameBoostOf(sc_in.query, sc_in.file_path,
                                          sc_in.base_score, boost_factor)]
    /\ sc_pc' = sc_pc \cup {"apply_filename_boost"}
    /\ UNCHANGED <<sc_in, resolverVars, chunkVars, embedVars, parseVars, serviceVars>>

NextScore == ScoreDocument \/ HybridScore \/ ApplyFilenameBoost

SpecScore == InitScore /\ [][NextScore]_vars

(***************************************************************************)
(* Claims about the scorer                                                 *)
(***************************************************************************)
InUnitInterval(x) == RLe(Whole(0), x) /\ RLe(x, Whole(1))

\* C14: with the default parameters every facet score, the keyword score and
\* the hybrid score lie in [0, 1], and a query without extractable terms has
\* keyword score 0.
C14_ScoresInUnitInterval ==
    /\ "score_document" \in sc_pc =>
          /\ InUnitInterval(sc_out.scores.path_score)
          /\ InUnitInterval(sc_out.scores.summary_score)
          /\ InUnitInterval(sc_out.scores.code_names_score)
          /\ InUnitInterval(sc_out.scores.keyword_score)
          /\ ExtractTerms(sc_in.query) = <<>> =>
                sc_out.scores.keyword_score = Whole(0)
    /\ "hybrid_score" \in sc_pc => InUnitInterval(sc_out.hybrid)

\* a path whose BM25 score was cut at 1, a summary score strictly between 0
\* and 1, and the two combined with a vector score of 1
C14_Witness ==
    /\ "hybrid_score" \in sc_pc
    /\ sc_out.scores.path_score = Whole(1)
    /\ ~RLe(RawBm25(ExtractTerms(sc_in.query), ExtractTerms(sc_in.file_path), 10),
            Whole(1))
    /\ ~RLe(sc_out.scores.summary_score, Whole(0))
    /\ ~RLe(Whole(1), sc_out.scores.summary_score)
    /\ sc_in.vector_score = Whole(1)
    /\ ~RLe(Whole(1), sc_out.hybrid)

\* C15: when a query term occurs among the terms of the bare filename the
\* boosted score is at least the base score and at most 1; otherwise it is
\* the base score.
C15_BoostNeverDecreases ==
    "apply_filename_boost" \in sc_pc =>
        IF MatchingTerms(sc_in.query, sc_in.file_path) # {}
        THEN RLe(sc_in.base_score, sc_out.boosted) /\ RLe(sc_out.boosted, Whole(1))
        ELSE sc_out.boosted = sc_in.base_score

\* one of three query terms is in the filename: the score is raised, and
\* stays below 1
C15_Witness ==
    /\ "apply_filename_boost" \in sc_pc
    /\ Cardinality(MatchingTerms(sc_in.query, sc_in.file_path)) = 1
    /\ Cardinality(Range(ExtractTerms(sc_in.query))) = 3
    /\ ~RLe(sc_out.boosted, sc_in.base_score)
    /\ ~RLe(Whole(1), sc_out.boosted)

(***************************************************************************)
(* services/parsers: ParserFactory.parse_file                              *)
(*                                                                         *)
(* A source text is the sequence of its top-level items: function and      *)
(* class items (as above), import statements, a malformed item (a syntax   *)
(* error) and a deep item (an expression nested beyond the interpreter's   *)
(* recursion limit, such as a long run of unary minus signs).              *)
(***************************************************************************)
\* import os  /  import pkg.c
PyImport(name) == [kind |-> "import", style |-> "import", level |-> 0, module |-> name]
\* from <level dots><module> import x
PyFrom(level, module) ==
    [kind |-> "import", style |-> "from", level |-> level, module |-> module]
\* import x from '<source>'
JsImport(source) ==
    [kind |-> "import", style |-> "es", level |-> 0, module |-> source]
MalformedItem == [kind |-> "malformed"]
DeepItem      == [kind |-> "deep"]

\* the function and class items of a source text
SyntaxNodes(code) == SelectSeq(code, LAMBDA it : it.kind \in {"function", "class"})

\* '.' * node.level
RECURSIVE Dots(_)
Dots(level) == IF level = 0 THEN <<>> ELSE <<".">> \o Dots(level - 1)

\* what PythonParser._extract_imports appends for one statement
PyImportString(it) ==
    IF it.style = "import" THEN it.module
    ELSE IF it.level > 0 THEN Dots(it.level) \o it.module
    ELSE it.module

\* what TreeSitterParser._traverse_imports appends: the text of the whole
\* statement
JsImportText(it) ==
    <<"import", " ", "x", " ", "from", " ", "'">> \o it.module \o <<"'">>

\* the elements of a set in an order fixed by the model checker
RECURSIVE SetToSeq(_)
SetToSeq(S) ==
    IF S = {} THEN <<>>
    ELSE LET x == CHOOSE y \in S : TRUE IN <<x>> \o SetToSeq(S \ {x})

\* list(set(xs)): the iteration order of a set of strings follows their
\* hashes, which depend on the hash seed of the interpreter process
ListOfSet(S, seed) ==
    LET base == SetToSeq(S)
        n    == Len(base)
    IN  IF n = 0 THEN <<>>
        ELSE [i \in 1..n |-> base[((i - 1 + seed) % n) + 1]]

\* PythonParser._extract_imports
PythonExtractImports(code, seed) ==
    LET stmts == SelectKind(code, "import")
        raw   == {PyImportString(stmts[i]) : i \in 1..Len(stmts)}
    IN  ListOfSet(raw \ {<<>>}, seed)

\* TreeSitterParser._extract_imports_ts
TreeSitterExtractImports(code, seed) ==
    LET stmts == SelectKind(code, "import")
    IN  ListOfSet({JsImportText(stmts[i]) : i \in 1..Len(stmts)}, seed)

NoError == "None"

ParseResult(functions, classes, imports, parse_error) ==
    [functions |-> functions, classes |-> classes, imports |-> imports,
     parse_error |-> parse_error, raised |-> "None"]
ErrorResult(parse_error) == ParseResult(<<>>, <<>>, <<>>, parse_error)
Raised(exception) ==
    [functions |-> <<>>, classes |-> <<>>, imports |-> <<>>,
     parse_error |-> NoError, raised |-> exception]

HasItem(code, kind) == \E i \in 1..Len(code) : code[i].kind = kind

\* PythonParser.parse: ast.parse raises SyntaxError for a malformed text,
\* which is caught; for a deep item it raises RecursionError or MemoryError,
\* which is not
PythonParse(code, seed) ==
    IF HasItem(code, "deep")
    THEN {Raised("RecursionError"), Raised("MemoryError")}
    ELSE IF HasItem(code, "malformed")
    THEN {ErrorResult("SyntaxError")}
    ELSE {ParseResult(PythonExtractFunctions(SyntaxNodes(code)),
                      PythonExtractClasses(SyntaxNodes(code)),
                      PythonExtractImports(code, seed), NoError)}

EndsWith(s, suffix) ==
    Len(s) >= Len(suffix) /\ SubSeq(s, Len(s) - Len(suffix) + 1, Len(s)) = suffix

\* TreeSitterParser._detect_language
DetectLanguage(file_path) ==
    CASE EndsWith(file_path, <<".", "js">>)  -> "javascript"
      [] EndsWith(file_path, <<".", "jsx">>) -> "javascript"
      [] EndsWith(file_path, <<".", "ts">>)  -> "typescript"
      [] EndsWith(file_path, <<".", "tsx">>) -> "typescript"
      [] EndsWith(file_path, <<".", "go">>)  -> "go"
      [] OTHER -> "None"

\* TreeSitterParser.parse: the tree-sitter parser returns a tree for any
\* text, with an ERROR node in place of a malformed item; the recursive
\* traversals exceed the recursion limit on a deep item, which the except
\* clause catches
TreeSitterParse(code, file_path, seed) ==
    IF DetectLanguage(file_path) = "None"
    THEN {ErrorResult("Could not detect language from file path")}
    ELSE IF HasItem(code, "deep")
    THEN {ErrorResult("RecursionError")}
    ELSE {ParseResult(TreeSitterExtractFunctions(SyntaxNodes(code)),
                      TreeSitterExtractClasses(SyntaxNodes(code)),
                      TreeSitterExtractImports(code, seed), NoError)}

python_languages == {"python"}
tree_sitter_languages ==
    {"javascript", "typescript", "tsx", "jsx", "go", "java", "rust", "cpp", "c", "php"}

\* BaseParser.get_parser: the parser registered for a language tag
GetParser(language) ==
    IF language \in python_languages THEN "PythonParser"
    ELSE IF language \in tree_sitter_languages THEN "TreeSitterParser"
    ELSE "None"

\* ParserFactory.parse_file: the set of its possible outcomes
ParseFileOf(code, file_path, language, seed) ==
    LET parser == GetParser(language)
    IN  IF parser = "None" THEN {ErrorResult("Unsupported language")}
        ELSE IF parser = "PythonParser" THEN PythonParse(code, seed)
        ELSE TreeSitterParse(code, file_path, seed)

(***************************************************************************)
(* Bounded inputs of parse_file                                            *)
(***************************************************************************)
\* parse_file is called at most MaxParses times on the same arguments, in
\* at most MaxProcesses interpreter processes, with hash seeds 0..MaxHashSeed
MaxParses    == 2
MaxProcesses == 2
MaxHashSeed  == 1

PyCodes ==
    { <<>>,
      << PyImport(<<"os">>), PyImport(<<"sys">>) >>,
      << PyImport(<<"os">>), PyImport(<<"os">>) >>,
      << PyFrom(1, <<"b">>), FunctionItem("f", 2, 4) >>,
      << PyFrom(1, <<>>), PyFrom(0, <<"pathlib">>), PyImport(<<"pkg", ".", "c">>) >>,
      ClassAndFunctionBody,
      << FunctionItem("f", 1, 3), MalformedItem >>,
      << PyImport(<<"os">>), DeepItem >> }

JsCodes ==
    { <<>>,
      << JsImport(<<".", "/", "b">>), JsImport(<<"fs">>) >>,
      << JsImport(<<".", "/", "b">>), FunctionItem("f", 2, 4) >>,
      ClassAndFunctionBody,
      << FunctionItem("f", 1, 3), MalformedItem >>,
      << MalformedItem >>,
      << DeepItem >> }

ParseInputs ==
    { [code |-> c, file_path |-> a_py, language |-> "python"] : c \in PyCodes }
    \cup
    { [code |-> c, file_path |-> path, language |-> language] :
        c \in JsCodes,
        path \in { <<"a", ".", "js">>, <<"x", ".", "ts">>, <<"a", ".", "mjs">> },
        language \in {"javascript", "typescript"} }
    \cup
    { [code |-> c, file_path |-> <<"a", ".", "rb">>, language |-> "ruby"] :
        c \in { <<>>, << FunctionItem("f", 1, 3) >>, << MalformedItem >> } }

(***************************************************************************)
(* Repeated calls of parse_file on one text                                *)
(***************************************************************************)
InitParse ==
    /\ pr_in \in ParseInputs
    /\ \E seed \in 0..MaxHashSeed : pr_proc = [n |-> 1, seed |-> seed]
    /\ pr_out = <<>>
    /\ IdleResolver /\ IdleChunk /\ IdleEmbed /\ IdleScore /\ IdleService

\* ParserFactory.parse_file(code, file_path, language) returns or raises
ParseFileCall ==
    /\ pr_in # <<>>
    /\ Len(pr_out) < MaxParses
    /\ \E outcome \in ParseFileOf(pr_in.code, pr_in.file_path, pr_in.language,
                                  pr_proc.seed) :
          pr_out' = Append(pr_out, [process |-> pr_proc.n, result |-> outcome])
    /\ UNCHANGED <<pr_in, pr_proc, resolverVars, chunkVars, embedVars, scoreVars, serviceVars>>

\* the interpreter is started anew: string hashes get a new seed
RestartProcess ==
    /\ pr_in # <<>>
    /\ pr_proc.n < MaxProcesses
    /\ \E seed \in 0..MaxHashSeed : pr_proc' = [n |-> pr_proc.n + 1, seed |-> seed]
    /\ UNCHANGED <<pr_in, pr_out, resolverVars, chunkVars, embedVars, scoreVars, serviceVars>>

NextParse == ParseFileCall \/ RestartProcess

SpecParse == InitParse /\ [][NextParse]_vars

(***************************************************************************)
(* Claims about the parsers                                                *)
(***************************************************************************)
\* C16: two parses of the same text with the same path and language yield
\* identical functions, classes and imports lists, in the same order.
C16_ParseIsDeterministic ==
    \A i, j \in DOMAIN pr_out :
        (pr_out[i].result.raised = "None" /\ pr_out[j].result.raised = "None")
            => pr_out[i].result = pr_out[j].result

\* what the code does: the lists agree as long as both parses run in the
\* same interpreter process, and always agree as sets
C16_CodeBehaviour ==
    \A i, j \in DOMAIN pr_out :
        /\ pr_out[i].result.functions = pr_out[j].result.functions
        /\ pr_out[i].result.classes = pr_out[j].result.classes
        /\ Range(pr_out[i].result.imports) = Range(pr_out[j].result.imports)
        /\ (pr_out[i].process = pr_out[j].process /\ pr_out[i].result.raised = "None"
              /\ pr_out[j].result.raised = "None")
              => pr_out[i].result = pr_out[j].result

\* the text has no item its parser cannot parse
WellFormed(code) == ~HasItem(code, "malformed") /\ ~HasItem(code, "deep")

\* C17: parse_file never raises; for an unregistered language and for a text
\* the parser cannot parse the lists are empty and parse_error is a
\* non-empty string; parse_error is null exactly when parsing succeeded.
C17_ParseFileNeverRaises ==
    \A i \in DOMAIN pr_out :
        LET r == pr_out[i].result
            registered == GetParser(pr_in.language) # "None"
        IN  /\ r.raised = "None"
            /\ (~registered \/ ~WellFormed(pr_in.code)) =>
                  /\ r.functions = <<>> /\ r.classes = <<>> /\ r.imports = <<>>
                  /\ r.parse_error # NoError
            /\ r.parse_error = NoError => (registered /\ WellFormed(pr_in.code))

\* what the code does: an unregistered language, a malformed Python text
\* and a path of unknown extension give an empty result with an error
C17_CodeBehaviour ==
    \A i \in DOMAIN pr_out :
        LET r == pr_out[i].result
        IN  (\/ GetParser(pr_in.language) = "None"
             \/ GetParser(pr_in.language) = "PythonParser"
                  /\ HasItem(pr_in.code, "malformed") /\ ~HasItem(pr_in.code, "deep")
             \/ GetParser(pr_in.language) = "TreeSitterParser"
                  /\ DetectLanguage(pr_in.file_path) = "None") =>
                /\ r.raised = "None"
                /\ r.functions = <<>> /\ r.classes = <<>> /\ r.imports = <<>>
                /\ r.parse_error # NoError

(***************************************************************************)
(* The resolver on a repository with several alias prefixes and a base     *)
(* resolution root                                                         *)
(***************************************************************************)
\* {"compilerOptions": {"baseUrl": "./src", "paths": {
\*    "@components/*": ["components/*"], "@/*": ["*"], "@/components/*": ["ui/*"]}}}
ModCfg ==
    [kind |-> "json",
     paths |-> << [pattern |-> <<"@", "components", "/", "*">>,
                   targets |-> << <<"components", "/", "*">> >>],
                  [pattern |-> <<"@", "/", "*">>,
                   targets |-> << <<"*">> >>],
                  [pattern |-> <<"@", "/", "components", "/", "*">>,
                   targets |-> << <<"ui", "/", "*">> >>] >>,
     baseUrl |-> <<".", "/", "src">>]

src_x_ts         == <<"src", "/", "x", ".", "ts">>
src_x_js         == <<"src", "/", "x", ".", "js">>
components_button_ts == <<"src", "/", "components", "/", "Button", ".", "ts">>
ui_button_ts     == <<"src", "/", "ui", "/", "Button", ".", "ts">>
utils_helper_ts  == <<"utils", "/", "helper", ".", "ts">>
utils_helper_js  == <<"utils", "/", "helper", ".", "js">>
src_utils_helper_ts == <<"src", "/", "utils", "/", "helper", ".", "ts">>

\* candidate files: the configuration, the importing file (TypeScript or
\* JavaScript), and the files its imports may name
ModUniverse ==
    << [path |-> root_tsconfig,        language |-> "json", contents |-> {ModCfg, Malformed}],
       [path |-> src_x_ts,             language |-> "typescript", contents |-> {NoContent}],
       [path |-> src_x_js,             language |-> "javascript", contents |-> {NoContent}],
       [path |-> components_button_ts, language |-> "typescript", contents |-> {NoContent}],
       [path |-> ui_button_ts,         language |-> "typescript", contents |-> {NoContent}],
       [path |-> utils_helper_ts,      language |-> "typescript", contents |-> {NoContent}],
       [path |-> utils_helper_js,      language |-> "javascript", contents |-> {NoContent}],
       [path |-> src_utils_helper_ts,  language |-> "typescript", contents |-> {NoContent}] >>

AtComponentsButton      == <<"@", "components", "/", "Button">>
AtSlashComponentsButton == <<"@", "/", "components", "/", "Button">>
UtilsHelper             == <<"utils", "/", "helper">>

ModImports ==
    { AtComponentsButton,                          \* "@components/Button"
      AtSlashComponentsButton,                     \* "@/components/Button"
      UtilsHelper,                                 \* "utils/helper"
      <<".", "/", "components", "/", "Button">> }  \* "./components/Button"

\* the repositories with exactly one importing file (file 2 or 3 of the
\* universe), which holds at most MaxImports import statements
ModuleRepositories ==
    UNION { LET order0   == Sorted(chosen)
                contents == {c \in [chosen -> UNION {ModUniverse[i].contents :
                                                       i \in chosen}] :
                                \A i \in chosen : c[i] \in ModUniverse[i].contents}
            IN  { RepoOf(ModUniverse, order, content, stmts) :
                    order   \in {order0, Reverse(order0)},
                    content \in contents,
                    stmts   \in SubsetsUpTo((chosen \cap {2, 3}) \X ModImports,
                                            MaxImports) }
          : chosen \in {c \in SUBSET (1..Len(ModUniverse)) :
                           Cardinality(c \cap {2, 3}) = 1} }

InitModules ==
    /\ files \in ModuleRepositories
    /\ tsconfig_map = ParseAllTsconfigs(files)
    /\ dependencies = <<>>
    /\ rs_pc = "first"
    /\ rs_i = 1
    /\ rs_trace = <<>>
    /\ IdleChunk /\ IdleEmbed /\ IdleOther

SpecModules == InitModules /\ [][NextResolver]_vars

\* the language of a repository path
LanguageOf(path) == FileOf(files, path).language

\* the alias scope of a file and the alias prefixes of it an import starts with
ScopeOf(path) == GetConfigForFile(tsconfig_map, path)
AliasHits(path, s) == MatchingAliases(ScopeOf(path).aliases, s)
LongestHit(path, s) ==
    CHOOSE a \in AliasHits(path, s) : \A c \in AliasHits(path, s) : Len(c) <= Len(a)

\* the path an import names after its longest alias prefix is substituted
AliasTarget(path, s) ==
    FindFileWithExtension(file_map(files),
        ScopeOf(path).aliases[LongestHit(path, s)] \o Drop(s, Len(LongestHit(path, s))),
        LanguageOf(path))

\* C18: in a JavaScript or TypeScript file, an import that starts with an
\* alias prefix of the file's scope resolves to the repository path obtained
\* by substituting the longest such prefix, for every prefix the
\* configuration defines.
C18_EveryAliasPrefixResolves ==
    \A p \in DOMAIN rs_trace : \A s \in DOMAIN rs_trace[p] :
        (LanguageOf(p) \in {"javascript", "typescript"} /\ AliasHits(p, s) # {})
            => rs_trace[p][s].resolved = AliasTarget(p, s)

\* what the code does: the substitution is applied to imports that start
\* with "@/" or "~/"; any other alias prefix is classified external first
C18_CodeBehaviour ==
    \A p \in DOMAIN rs_trace : \A s \in DOMAIN rs_trace[p] :
        (LanguageOf(p) \in {"javascript", "typescript"} /\ AliasHits(p, s) # {}) =>
            IF StartsWith(s, AtSlash) \/ StartsWith(s, TildeSlash)
            THEN rs_trace[p][s].resolved = AliasTarget(p, s)
            ELSE rs_trace[p][s].strategy = "external"

\* an import that is neither relative nor an alias nor a Node.js builtin
PlainImport(path, s) ==
    /\ ~StartsWith(s, <<".">>)
    /\ AliasHits(path, s) = {}
    /\ Split(s, "/")[1] \notin node_builtins

\* the direct lookup, then the lookup under the scope's base resolution root
DirectThenBase(path, s) ==
    LET direct   == FindFileWithExtension(file_map(files), s, LanguageOf(path))
        base_url == ScopeOf(path).base_url
    IN  IF direct # NoPath THEN direct
        ELSE IF base_url # NoPath
        THEN FindFileWithExtension(file_map(files), base_url \o <<"/">> \o s,
                                   LanguageOf(path))
        ELSE NoPath

\* C19: in a JavaScript or TypeScript file, an import that is neither
\* relative nor an alias resolves to the file found directly or, failing
\* that, under the base resolution root of the file's scope; it is an edge
\* whenever either lookup finds a file.
C19_PlainImportResolves ==
    \A p \in DOMAIN rs_trace : \A s \in DOMAIN rs_trace[p] :
        (LanguageOf(p) \in {"javascript", "typescript"} /\ PlainImport(p, s)) =>
            /\ rs_trace[p][s].resolved = DirectThenBase(p, s)
            /\ DirectThenBase(p, s) # NoPath =>
                  DirectThenBase(p, s) \in dependencies[p].imports

\* what the code does: such an import is classified external before any
\* lookup
C19_CodeBehaviour ==
    \A p \in DOMAIN rs_trace : \A s \in DOMAIN rs_trace[p] :
        (LanguageOf(p) \in {"javascript", "typescript"} /\ PlainImport(p, s)
           /\ ~StartsWith(s, <<"/">>)) =>
            /\ rs_trace[p][s].strategy = "external"
            /\ s \in dependencies[p].external_imports

(***************************************************************************)
(* Parsing every file of a repository, then resolving its dependencies     *)
(*                                                                         *)
(* pr_in holds the source text of each file, in the order of the file      *)
(* list; every file is parsed, its document receives the import list the   *)
(* parser returned, and the resolver then runs on the documents.           *)
(***************************************************************************)
pkg_a_py == <<"pkg", "/", "a", ".", "py">>
pkg_b_py == <<"pkg", "/", "b", ".", "py">>
a_js     == <<"a", ".", "js">>
b_js     == <<"b", ".", "js">>

\* candidate files and their candidate source texts
SourceUniverse ==
    << [path |-> pkg_a_py, language |-> "python",
        codes |-> { << PyFrom(1, <<"b">>) >>,                       \* from .b import x
                    << PyFrom(1, <<"b">>), PyImport(<<"os">>) >>,
                    << PyFrom(0, <<"pkg", ".", "b">>) >>,           \* from pkg.b import x
                    << PyImport(<<"os">>), FunctionItem("f", 2, 4) >> }],
       [path |-> pkg_b_py, language |-> "python",
        codes |-> { <<>>, << FunctionItem("f", 1, 3) >> }],
       [path |-> a_js, language |-> "javascript",
        codes |-> { << JsImport(<<".", "/", "b">>) >>,              \* import x from './b'
                    << JsImport(<<".", "/", "b">>), JsImport(<<"fs">>) >>,
                    << FunctionItem("f", 1, 3) >> }],
       [path |-> b_js, language |-> "javascript",
        codes |-> { <<>>, << FunctionItem("f", 1, 3) >> }] >>

\* the source texts of the repositories: any non-empty subset of the
\* candidate files, in listing order or reversed, each with one of its texts
SourceRepositories ==
    UNION { LET order0 == Sorted(chosen)
                texts  == {c \in [chosen -> UNION {SourceUniverse[i].codes :
                                                     i \in chosen}] :
                              \A i \in chosen : c[i] \in SourceUniverse[i].codes}
            IN  { [k \in 1..Len(order) |->
                      [code      |-> text[order[k]],
                       file_path |-> SourceUniverse[order[k]].path,
                       language  |-> SourceUniverse[order[k]].language]] :
                    order \in {order0, Reverse(order0)}, text \in texts }
          : chosen \in (SUBSET (1..Len(SourceUniverse))) \ {{}} }

\* FileService.create_file: the document of a file before it is parsed
NewFileDocument(path, language) ==
    [path |-> path, language |-> language, content |-> NoContent, imports |-> {}]

\* FileService.update_parsed_data: the document takes the parser's imports
UpdateParsedData(file, imports) == [file EXCEPT !.imports = Range(imports)]

InitPipeline ==
    /\ pr_in \in SourceRepositories
    /\ \E seed \in 0..MaxHashSeed : pr_proc = [n |-> 1, seed |-> seed]
    /\ pr_out = <<>>
    /\ files = [k \in 1..Len(pr_in) |->
                   NewFileDocument(pr_in[k].file_path, pr_in[k].language)]
    /\ tsconfig_map = <<>>
    /\ dependencies = <<>>
    /\ rs_pc = "parse"
    /\ rs_i = 1
    /\ rs_trace = <<>>
    /\ IdleChunk /\ IdleEmbed /\ IdleScore /\ IdleService

\* one file is parsed and its document updated
ParseRepositoryFile ==
    /\ rs_pc = "parse"
    /\ rs_i <= Len(files)
    /\ \E result \in ParseFileOf(pr_in[rs_i].code, pr_in[rs_i].file_path,
                                 pr_in[rs_i].language, pr_proc.seed) :
          /\ result.raised = "None"
          /\ pr_out' = Append(pr_out, result)
          /\ files' = [files EXCEPT ![rs_i] = UpdateParsedData(@, result.imports)]
    /\ rs_i' = rs_i + 1
    /\ UNCHANGED <<tsconfig_map, dependencies, rs_pc, rs_trace, pr_in, pr_proc,
                   chunkVars, embedVars, scoreVars, serviceVars>>

\* DependencyResolver(repo_id, files): every file is parsed; the resolver is
\* constructed on the documents
ConstructResolver ==
    /\ rs_pc = "parse"
    /\ rs_i > Len(files)
    /\ tsconfig_map' = ParseAllTsconfigs(files)
    /\ rs_pc' = "first"
    /\ rs_i' = 1
    /\ UNCHANGED <<files, dependencies, rs_trace, chunkVars, embedVars, otherVars>>

NextPipeline ==
    \/ ParseRepositoryFile
    \/ ConstructResolver
    \/ NextResolver

SpecPipeline == InitPipeline /\ [][NextPipeline]_vars

\* the sibling modules the source text of a file imports: `from .m import x`
\* in Python, `import x from './m'` in JavaScript
SiblingImports(src) ==
    LET stmts == SelectKind(src.code, "import")
        dir   == DirOf(src.file_path)
        under(name) == IF dir = <<>> THEN name ELSE dir \o <<"/">> \o name
    IN  { under(stmts[i].module \o <<".", "py">>) :
            i \in {j \in 1..Len(stmts) :
                     /\ src.language = "python"
                     /\ stmts[j].style = "from" /\ stmts[j].level = 1
                     /\ stmts[j].module # <<>>} }
        \cup
        { under(Drop(stmts[i].module, 2) \o <<".", "js">>) :
            i \in {j \in 1..Len(stmts) :
                     /\ src.language = "javascript"
                     /\ stmts[j].style = "es"
                     /\ StartsWith(stmts[j].module, <<".", "/">>)} }

\* C20: after every file is parsed and resolve_all_dependencies has run, a
\* file whose source imports a sibling module that exists in the repository
\* (Python `from .b import x`, JavaScript `import x from './b'`) has the edge
\* to the imported file.
C20_RawImportsYieldEdges ==
    rs_pc = "done" =>
        \A k \in 1..Len(pr_in) :
            \A target \in SiblingImports(pr_in[k]) \cap file_map(files) :
                target \in dependencies[pr_in[k].file_path].imports

\* what the code does: no sibling import as the parsers emit it becomes an
\* edge; each is recorded as an external import
C20_CodeBehaviour ==
    rs_pc = "done" =>
        \A k \in 1..Len(pr_in) :
            SiblingImports(pr_in[k]) # {} =>
                /\ SiblingImports(pr_in[k]) \cap dependencies[pr_in[k].file_path].imports = {}
                /\ Range(pr_out[k].imports)
                      \subseteq dependencies[pr_in[k].file_path].external_imports

(***************************************************************************)
(* Line spans of function records                                          *)
(***************************************************************************)
\* EmbeddingService._extract_code_by_lines: lines[start_line-1:end_line] of
\* a content of n_lines lines, as the set of its 1-indexed line numbers
ExtractCodeByLines(n_lines, start_line, end_line) ==
    {l \in 1..n_lines : start_line <= l /\ l <= end_line}

\* the function definitions of a source text: its functions and the methods
\* of its classes
FunctionNodes(code) ==
    Range(SelectKind(code, "function"))
        \cup UNION {Range(it.methods) : it \in Range(SelectKind(code, "class"))}

\* the last line of a source text
LastLine(code) ==
    LET ends == {it.line_end : it \in Range(SyntaxNodes(code))}
    IN  IF ends = {} THEN 0 ELSE CHOOSE m \in ends : \A e \in ends : e <= m

\* C21: every function record of a successful parse has line_end equal to the
\* last line of the function's definition, and the slice embedded for a
\* standalone function covers the lines of the whole definition.
C21_FunctionSpanIsWholeDefinition ==
    \A i \in DOMAIN pr_out :
        LET r == pr_out[i].result
        IN  (r.raised = "None" /\ r.parse_error = NoError) =>
              \A k \in 1..Len(r.functions) :
                \E node \in FunctionNodes(pr_in.code) :
                    /\ node.name = r.functions[k].name
                    /\ node.line_start = r.functions[k].line_start
                    /\ node.line_end = r.functions[k].line_end
                    /\ ExtractCodeByLines(LastLine(pr_in.code),
                                          r.functions[k].line_start,
                                          r.functions[k].line_end)
                         = node.line_start..node.line_end

\* what the code does: the tree-sitter parser records the end line of the
\* definition; the Python parser records the first line as line_end, so the
\* slice of a Python function is its first line only
C21_CodeBehaviour ==
    \A i \in DOMAIN pr_out :
        LET r == pr_out[i].result
        IN  (r.raised = "None" /\ r.parse_error = NoError) =>
              \A k \in 1..Len(r.functions) :
                \E node \in FunctionNodes(pr_in.code) :
                    /\ node.name = r.functions[k].name
                    /\ node.line_start = r.functions[k].line_start
                    /\ r.functions[k].line_end =
                         IF GetParser(pr_in.language) = "PythonParser"
                         THEN node.line_start ELSE node.line_end
                    /\ GetParser(pr_in.language) = "PythonParser" =>
                         ExtractCodeByLines(LastLine(pr_in.code),
                                            r.functions[k].line_start,
                                            r.functions[k].line_end)
                           = {node.line_start}

(***************************************************************************)
(* Relative imports that climb above the repository root                   *)
(***************************************************************************)
\* the number of leading ".." segments of a sequence of path segments
RECURSIVE LeadingUps(_)
LeadingUps(parts) ==
    IF parts # <<>> /\ Head(parts) = <<".", ".">> THEN 1 + LeadingUps(Tail(parts))
    ELSE 0

\* the number of directories above a file
Depth(path) == Len(Split(path, "/")) - 1

\* a relative import with more ".." segments than the importing file's
\* directory depth, all of them leading
ClimbsAboveRoot(path, s) ==
    LET parts == Split(s, "/")
        ups   == LeadingUps(parts)
    IN  /\ StartsWith(s, <<".", ".", "/">>)
        /\ ups > Depth(path)
        /\ \A i \in (ups + 1)..Len(parts) : parts[i] \notin {<<".", ".">>, <<".">>, <<>>}

\* the segments after the leading ".." segments, joined
BelowRoot(s) ==
    LET parts == Split(s, "/")
    IN  Join(SubSeq(parts, LeadingUps(parts) + 1, Len(parts)), "/")

\* C22: a relative import with more ".." segments than the importing file's
\* directory depth gets an outcome, and it is the file its remaining
\* segments name from the repository root.
C22_NeverPopsBelowRoot ==
    \A p \in DOMAIN rs_trace : \A s \in DOMAIN rs_trace[p] :
        ClimbsAboveRoot(p, s) =>
            /\ rs_trace[p][s].strategy = "relative"
            /\ rs_trace[p][s].resolved =
                 FindFileWithExtension(file_map(files), BelowRoot(s), LanguageOf(p))
            /\ rs_trace[p][s].resolved # NoPath =>
                 rs_trace[p][s].resolved \in dependencies[p].imports

\* a file one directory deep imports "../../b", b exists at the root, and
\* the edge is recorded
C22_Witness ==
    \E p \in DOMAIN rs_trace : \E s \in DOMAIN rs_trace[p] :
        /\ ClimbsAboveRoot(p, s)
        /\ Depth(p) = 1
        /\ rs_trace[p][s].resolved = b_py
        /\ b_py \in dependencies[p].imports

(***************************************************************************)
(* Configuration files that cannot be read                                 *)
(***************************************************************************)
\* the configuration files of the repository
ConfigFiles == {f \in Range(files) : FileNameOf(f.path) \in config_files}

\* a directory encloses a file
Encloses(dir, path) ==
    dir = <<>> \/ DirOf(path) = dir \/ StartsWith(DirOf(path), dir \o <<"/">>)

\* the configuration directories that enclose a file and hold a malformed or
\* empty configuration file
UnreadableAbove(path) ==
    {DirOf(f.path) : f \in {g \in ConfigFiles :
                              g.content.kind # "json" /\ Encloses(DirOf(g.path), path)}}

\* the scope of the nearest enclosing directory with a loaded configuration,
\* the built-in default scope when there is none
NextEnclosingScope(path) ==
    LET dirs == EnclosingScopes(path)
    IN  IF dirs = {} THEN default_config
        ELSE tsconfig_map[CHOOSE d \in dirs : \A e \in dirs : Len(e) <= Len(d)]

\* C23: a malformed or empty configuration file gets no entry in the scope
\* map, every other configuration file is loaded, resolution runs, and an
\* alias import of a file beneath the malformed configuration resolves with
\* the next enclosing scope or the default scope.
C23_MalformedConfigIsSkipped ==
    /\ \A f \in ConfigFiles :
          IF f.content.kind = "json"
          THEN /\ DirOf(f.path) \in DOMAIN tsconfig_map
               /\ tsconfig_map[DirOf(f.path)] = ParsedConfig(f.path, f.content)
          ELSE DirOf(f.path) \notin DOMAIN tsconfig_map
    /\ \A p \in DOMAIN rs_trace : \A s \in DOMAIN rs_trace[p] :
          (UnreadableAbove(p) # {}
             /\ (StartsWith(s, AtSlash) \/ StartsWith(s, TildeSlash))) =>
              LET scope == NextEnclosingScope(p)
                  alias == SubSeq(s, 1, 2)
              IN  /\ rs_trace[p][s].strategy = "alias"
                  /\ rs_trace[p][s].resolved =
                       FindFileWithExtension(file_map(files),
                           scope.aliases[alias] \o Drop(s, 2), LanguageOf(p))

\* frontend/tsconfig.json is malformed, the root configuration is loaded, and
\* "@/util" in frontend/src/x.ts resolves with the root scope to src/util.ts
C23_Witness ==
    /\ rs_pc = "done"
    /\ \E f \in ConfigFiles : f.path = front_tsconfig /\ f.content = Malformed
    /\ DOMAIN tsconfig_map = { <<>> }
    /\ x_ts \in file_map(files)
    /\ AtUtil \in Imports(x_ts)
    /\ dependencies[x_ts].imports = {src_util_ts}

\* frontend/tsconfig.json is empty and is the only configuration file:
\* "@/util" in frontend/src/x.ts resolves with the default scope
C23_WitnessEmpty ==
    /\ rs_pc = "done"
    /\ \E f \in ConfigFiles : f.path = front_tsconfig /\ f.content = EmptyContent
    /\ Cardinality(ConfigFiles) = 1
    /\ DOMAIN tsconfig_map = {}
    /\ x_ts \in file_map(files)
    /\ AtUtil \in Imports(x_ts)
    /\ dependencies[x_ts].imports = {src_util_ts}

(***************************************************************************)
(* The two passes of resolve_all_dependencies                              *)
(***************************************************************************)
\* the paths of the files the first pass has processed
FirstPassDone == {files[k].path : k \in 1..(IF rs_pc = "first" THEN rs_i - 1 ELSE Len(files))}

\* C24: while the first pass runs, the entries are exactly those of the
\* files processed so far, each still holding what its own first pass
\* stored (its resolved imports, its external imports, an empty imported_by);
\* an imported_by list is non-empty only after every file has its entry.
C24_ReverseEdgePassIsBarrier ==
    rs_pc \in {"first", "second", "done"} =>
        /\ rs_pc = "first" =>
              /\ DOMAIN dependencies = FirstPassDone
              /\ \A q \in DOMAIN dependencies :
                    /\ dependencies[q].imported_by = <<>>
                    /\ dependencies[q].imports =
                         {rs_trace[q][s].resolved : s \in Imports(q)} \ {NoPath}
                    /\ dependencies[q].external_imports =
                         {s \in Imports(q) : rs_trace[q][s].resolved = NoPath}
        /\ (\E q \in DOMAIN dependencies : dependencies[q].imported_by # <<>>) =>
              /\ rs_pc \in {"second", "done"}
              /\ DOMAIN dependencies = file_map(files)
              /\ DOMAIN rs_trace = file_map(files)

\* b.py is listed before a.py, a.py imports it, and its imported_by holds
\* a.py once the second pass has run
C24_Witness ==
    /\ rs_pc = "done"
    /\ Len(files) >= 2
    /\ files[1].path = b_py
    /\ a_py \in DOMAIN dependencies
    /\ b_py \in dependencies[a_py].imports
    /\ dependencies[b_py].imported_by = <<a_py>>

(***************************************************************************)
(* EmbeddingService._load_model called by concurrent runs                  *)
(*                                                                         *)
(* The runs are coroutines of one event loop on one service instance: a    *)
(* run executes without interruption up to its next await.                 *)
(***************************************************************************)
\* at most this many runs call _load_model on the instance
MaxRuns == 3

RunIds == 1..MaxRuns

\* the position of a run in _load_model; `call` numbers its loader call
At(at, call) == [at |-> at, call |-> call]

InitLoad ==
    /\ ld_codebert \in BOOLEAN
    /\ ld_model = 0
    /\ ld_calls = 0
    /\ ld_assigned = <<>>
    /\ ld_pc = [r \in RunIds |-> At("not called", 0)]
    /\ IdleTask /\ IdleMessages
    /\ IdleResolver /\ IdleChunk /\ IdleEmbed /\ IdleScore /\ IdleParse

\* a run calls _load_model: it returns at once for a provider backend (lines
\* 74-75) and when the model is set (line 77); otherwise it calls the loader
\* in the executor and is suspended at the await (lines 81-85)
LoadModelEnter(r) ==
    /\ ld_pc # <<>>
    /\ ld_pc[r].at = "not called"
    /\ IF ~ld_codebert
       THEN /\ ld_pc' = [ld_pc EXCEPT ![r] = At("returned: provider", 0)]
            /\ UNCHANGED ld_calls
       ELSE IF ld_model # 0
       THEN /\ ld_pc' = [ld_pc EXCEPT ![r] = At("returned: model set", 0)]
            /\ UNCHANGED ld_calls
       ELSE /\ ld_calls' = ld_calls + 1
            /\ ld_pc' = [ld_pc EXCEPT ![r] = At("awaiting", ld_calls + 1)]
    /\ UNCHANGED <<ld_codebert, ld_model, ld_assigned,
                   taskVars, messageVars,
                   resolverVars, chunkVars, embedVars, scoreVars, parseVars>>

\* the loader of a suspended run returns and the run assigns self.model
\* (line 82)
LoadModelAssign(r) ==
    /\ ld_pc # <<>>
    /\ ld_pc[r].at = "awaiting"
    /\ ld_model' = ld_pc[r].call
    /\ ld_assigned' = Append(ld_assigned, ld_pc[r].call)
    /\ ld_pc' = [ld_pc EXCEPT ![r].at = "returned: loaded"]
    /\ UNCHANGED <<ld_codebert, ld_calls,
                   taskVars, messageVars,
                   resolverVars, chunkVars, embedVars, scoreVars, parseVars>>

\* the loader of a suspended run raises and the run re-raises (lines 86-88)
LoadModelFail(r) ==
    /\ ld_pc # <<>>
    /\ ld_pc[r].at = "awaiting"
    /\ ld_pc' = [ld_pc EXCEPT ![r].at = "raised"]
    /\ UNCHANGED <<ld_codebert, ld_model, ld_calls, ld_assigned,
                   taskVars, messageVars,
                   resolverVars, chunkVars, embedVars, scoreVars, parseVars>>

NextLoad ==
    \E r \in RunIds : LoadModelEnter(r) \/ LoadModelAssign(r) \/ LoadModelFail(r)

SpecLoad == InitLoad /\ [][NextLoad]_vars

\* no loader call has failed
NoLoadFailure == \A r \in DOMAIN ld_pc : ld_pc[r].at # "raised"

\* C25: as long as no load fails, the model loader is called at most once,
\* however the runs interleave, and self.model is assigned at most once.
C25_ModelLoadedOnce ==
    NoLoadFailure => (ld_calls <= 1 /\ Len(ld_assigned) <= 1)

\* what the code does: every run that finds the model unset calls the
\* loader, and every loader call that returns assigns self.model
C25_CodeBehaviour ==
    /\ ld_calls = Cardinality({r \in DOMAIN ld_pc : ld_pc[r].call # 0})
    /\ Len(ld_assigned) =
          Cardinality({r \in DOMAIN ld_pc : ld_pc[r].at = "returned: loaded"})
    /\ ~ld_codebert => ld_calls = 0

(***************************************************************************)
(* Term extraction                                                         *)
(***************************************************************************)
\* the maximal runs of letters and digits of a text, lowercased
AlnumRuns(text) ==
    LET words == SelectSeq(text, LAMBDA w : w \notin NonAlnum)
    IN  [i \in 1..Len(words) |-> LowerWord(words[i])]

\* the runs of length >= 2 that are not stop words
ExpectedTerms(text) ==
    SelectSeq(AlnumRuns(text), LAMBDA w : w \notin stop_words /\ w \notin OneCharWords)

\* the texts score_document extracts terms from
ScoredTexts == {sc_in.query, sc_in.file_path, sc_in.summary}

\* C26: the terms extracted from a text are its maximal runs of letters and
\* digits, lowercased, of length >= 2 and not stop words, the underscore
\* being a separator like any other non-alphanumeric character.
C26_TermsAreAlnumRuns ==
    "score_document" \in sc_pc =>
        \A text \in ScoredTexts : ExtractTerms(text) = ExpectedTerms(text)

\* what the code does: a text without underscore is split as stated; a run
\* next to an underscore is never a term
C26_CodeBehaviour ==
    "score_document" \in sc_pc =>
        \A text \in ScoredTexts :
            /\ "_" \notin Range(text) => ExtractTerms(text) = ExpectedTerms(text)
            /\ \A i \in 1..Len(text) :
                  (text[i] \notin NonAlnum
                     /\ ((i > 1 /\ text[i - 1] = "_") \/ (i < Len(text) /\ text[i + 1] = "_"))
                     /\ Cardinality({j \in 1..Len(text) : text[j] = text[i]}) = 1)
                    => LowerWord(text[i]) \notin Range(ExtractTerms(text))

(***************************************************************************)
(* hybrid_score with caller-supplied weights                               *)
(***************************************************************************)
\* the call hybrid_score(vector_score, keyword_score, vector_weight,
\* keyword_weight): the division by total_weight (lines 270-271) raises
\* ZeroDivisionError when the weights sum to 0
HybridScoreCall(vector_score, keyword_score, vweight, kweight) ==
    IF RAdd(vweight, kweight) = Whole(0)
    THEN [raised |-> "ZeroDivisionError", value |-> Whole(0)]
    ELSE [raised |-> "None",
          value  |-> HybridScoreOf(vector_score, keyword_score, vweight, kweight)]

\* weights are the multiples of 1/WeightGrid in [0, 2]
WeightGrid == 2
WeightValues == {Rat(n, WeightGrid) : n \in 0..(2 * WeightGrid)}
\* the positive factors both weights are scaled by
ScaleFactors == {Whole(2), Whole(3), Rat(1, 2)}

NotCalled == [raised |-> "not called", value |-> Whole(0)]

InitWeights ==
    /\ sc_in \in [vector_score : ScoreValues, keyword_score : ScoreValues,
                  vector_weight : WeightValues, keyword_weight : WeightValues,
                  factor : ScaleFactors]
    /\ sc_out = [plain |-> NotCalled, scaled |-> NotCalled]
    /\ sc_pc = {}
    /\ IdleResolver /\ IdleChunk /\ IdleEmbed /\ IdleParse /\ IdleService

\* hybrid_score(vector_score, keyword_score, vector_weight, keyword_weight)
HybridScoreWeighted ==
    /\ sc_in # <<>>
    /\ "vector_weight" \in DOMAIN sc_in
    /\ "weighted" \notin sc_pc
    /\ sc_out' = [sc_out EXCEPT !.plain =
                     HybridScoreCall(sc_in.vector_score, sc_in.keyword_score,
                                     sc_in.vector_weight, sc_in.keyword_weight)]
    /\ sc_pc' = sc_pc \cup {"weighted"}
    /\ UNCHANGED <<sc_in, resolverVars, chunkVars, embedVars, parseVars, serviceVars>>

\* the same call with both weights multiplied by the factor
HybridScoreScaled ==
    /\ sc_in # <<>>
    /\ "vector_weight" \in DOMAIN sc_in
    /\ "scaled" \notin sc_pc
    /\ sc_out' = [sc_out EXCEPT !.scaled =
                     HybridScoreCall(sc_in.vector_score, sc_in.keyword_score,
                                     RMul(sc_in.factor, sc_in.vector_weight),
                                     RMul(sc_in.factor, sc_in.keyword_weight))]
    /\ sc_pc' = sc_pc \cup {"scaled"}
    /\ UNCHANGED <<sc_in, resolverVars, chunkVars, embedVars, parseVars, serviceVars>>

NextWeights == HybridScoreWeighted \/ HybridScoreScaled

SpecWeights == InitWeights /\ [][NextWeights]_vars

\* C27: for any non-negative weights, both equal to 0 included, hybrid_score
\* returns a value; the value is the combination of the two scores with the
\* weights divided by their sum, and it does not change when both weights
\* are multiplied by the same positive factor.
C27_WeightsAreNormalized ==
    /\ "weighted" \in sc_pc =>
          /\ sc_out.plain.raised = "None"
          /\ RMul(RAdd(sc_in.vector_weight, sc_in.keyword_weight), sc_out.plain.value)
                = RAdd(RMul(sc_in.vector_weight, sc_in.vector_score),
                       RMul(sc_in.keyword_weight, sc_in.keyword_score))
    /\ {"weighted", "scaled"} \subseteq sc_pc =>
          /\ sc_out.scaled.raised = "None"
          /\ sc_out.scaled.value = sc_out.plain.value

\* what the code does: the call raises exactly when the weights sum to 0,
\* and otherwise returns the normalized combination, unchanged by scaling
C27_CodeBehaviour ==
    /\ "weighted" \in sc_pc =>
          IF RAdd(sc_in.vector_weight, sc_in.keyword_weight) = Whole(0)
          THEN sc_out.plain.raised = "ZeroDivisionError"
          ELSE /\ sc_out.plain.raised = "None"
               /\ RMul(RAdd(sc_in.vector_weight, sc_in.keyword_weight),
                       sc_out.plain.value)
                     = RAdd(RMul(sc_in.vector_weight, sc_in.vector_score),
                            RMul(sc_in.keyword_weight, sc_in.keyword_score))
    /\ {"weighted", "scaled"} \subseteq sc_pc => sc_out.scaled = sc_out.plain

(***************************************************************************)
(* Termination and coverage of the sliding window                          *)
(***************************************************************************)
\* the loop is a sequential computation: it takes its next step as long as
\* it has one
FairSpecChunk == SpecChunk /\ WF_vars(NextChunk)

\* the chunks returned cover the class: the first starts at the start line,
\* the last ends at the end line, each starts no later than the line after
\* the end of the one before, and every line lies in some chunk
CoversClass ==
    /\ sw_chunks # <<>>
    /\ sw_chunks[1].start = sw_in.start_line
    /\ sw_chunks[Len(sw_chunks)].end = sw_in.end_line
    /\ \A i \in 2..Len(sw_chunks) : sw_chunks[i].start <= sw_chunks[i - 1].end + 1
    /\ \A l \in sw_in.start_line..sw_in.end_line :
          \E i \in 1..Len(sw_chunks) : sw_chunks[i].start <= l /\ l <= sw_chunks[i].end

\* C28: for start line < end line and chunk_size > overlap >= 0 the loop
\* terminates, and the list it returns is non-empty and covers the class.
C28_TerminatesAndCovers ==
    /\ <>(sw_pc = "done")
    /\ []((sw_pc = "done" /\ sw_in.start_line < sw_in.end_line) => CoversClass)

\* a window of 2 lines without overlap over a class of 7 lines has returned
\* its chunks
C28_Witness ==
    /\ sw_pc = "done"
    /\ sw_in.chunk_size = 2 /\ sw_in.overlap = 0
    /\ sw_in.end_line - sw_in.start_line = 6
    /\ Len(sw_chunks) = 3
    /\ CoversClass

(***************************************************************************)
(* TaskService: the tasks collection and the calls that write to it        *)
(* (task_service.py).  Every call is one insert_one or one update_one,     *)
(* which the database applies atomically.  Time stamps are left out but    *)
(* for whether completed_at is set.                                        *)
(***************************************************************************)
\* at most this many tasks are created, at most this many calls are made,
\* and the file counts of update_progress are at most this large
MaxTasks   == 2
MaxTaskOps == 4
MaxFiles   == 2

TaskIds == 1..MaxTasks

TerminalStatuses == {"completed", "failed"}

\* progress.current_step; pct is the percentage of the "Processing files"
\* text and 0 in the other texts
Step(text, pct) == [text |-> text, pct |-> pct]

\* current_step of update_progress (lines 53-59); int((p / t) * 100) is
\* the integer quotient for the counts drawn here
CurrentStep(processed_files, total_files) ==
    IF processed_files = 0 THEN Step("Starting file processing", 0)
    ELSE IF processed_files >= total_files THEN Step("Finalizing", 0)
    ELSE Step("Processing files", (processed_files * 100) \div total_files)

\* task_doc of create_task (lines 18-35)
TaskDoc ==
    [status |-> "pending", total_files |-> 0, processed_files |-> 0,
     current_step |-> Step("queued", 0), error_message |-> "None",
     completed_at |-> "None", result |-> "absent"]

InitTask ==
    /\ tk_tasks = <<>>
    /\ tk_ops = 0
    /\ IdleLoad /\ IdleMessages
    /\ IdleResolver /\ IdleChunk /\ IdleEmbed /\ IdleScore /\ IdleParse

\* create_task (lines 12-38): a document with a fresh task_id is inserted
create_task ==
    /\ tk_ops < MaxTaskOps
    /\ Len(tk_tasks) < MaxTasks
    /\ tk_tasks' = Append(tk_tasks, TaskDoc)
    /\ tk_ops' = tk_ops + 1
    /\ UNCHANGED <<loadVars, messageVars,
                   resolverVars, chunkVars, embedVars, scoreVars, parseVars>>

\* update_one({"task_id": task_id}, {"$set": fields}): the document with
\* this task_id, if there is one, gets the fields; its status is not part of
\* the filter
UpdateOne(task_id, fields) ==
    IF task_id \in DOMAIN tk_tasks
    THEN [tk_tasks EXCEPT ![task_id] = fields @@ @]
    ELSE tk_tasks

\* update_progress (lines 47-71)
update_progress(task_id, processed_files, total_files) ==
    /\ tk_ops < MaxTaskOps
    /\ tk_tasks' = UpdateOne(task_id,
           [status |-> "in_progress",
            current_step |-> CurrentStep(processed_files, total_files),
            total_files |-> total_files,
            processed_files |-> processed_files])
    /\ tk_ops' = tk_ops + 1
    /\ UNCHANGED <<loadVars, messageVars,
                   resolverVars, chunkVars, embedVars, scoreVars, parseVars>>

\* complete_task (lines 73-90); result is "None" or a dict, which is stored
\* when it is not empty (line 83)
complete_task(task_id, result) ==
    /\ tk_ops < MaxTaskOps
    /\ tk_tasks' = UpdateOne(task_id,
           IF result \in {"None", "{}"}
           THEN [status |-> "completed", completed_at |-> "now"]
           ELSE [status |-> "completed", completed_at |-> "now",
                 result |-> result])
    /\ tk_ops' = tk_ops + 1
    /\ UNCHANGED <<loadVars, messageVars,
                   resolverVars, chunkVars, embedVars, scoreVars, parseVars>>

\* fail_task (lines 92-103)
fail_task(task_id, error_message) ==
    /\ tk_ops < MaxTaskOps
    /\ tk_tasks' = UpdateOne(task_id,
           [status |-> "failed", error_message |-> error_message])
    /\ tk_ops' = tk_ops + 1
    /\ UNCHANGED <<loadVars, messageVars,
                   resolverVars, chunkVars, embedVars, scoreVars, parseVars>>

NextTask ==
    \/ create_task
    \/ \E t \in TaskIds, p \in 0..MaxFiles, n \in 0..MaxFiles :
          update_progress(t, p, n)
    \/ \E t \in TaskIds, r \in {"None", "{}", "{files: 2}"} : complete_task(t, r)
    \/ \E t \in TaskIds : fail_task(t, "error")

SpecTask == InitTask /\ [][NextTask]_vars

\* C29: the terminal statuses are absorbing: once the status of a task is
\* "completed" or "failed", no later call of update_progress, complete_task
\* or fail_task changes it.
C29_TerminalStatusIsAbsorbing ==
    [][\A t \in DOMAIN tk_tasks :
          tk_tasks[t].status \in TerminalStatuses
             => tk_tasks'[t].status = tk_tasks[t].status]_vars

\* what the code does: each of the three calls writes its status whatever
\* the status was, so a task changes to any of the three statuses from any
\* status; "pending" is the only status that is never entered again
C29_CodeBehaviour ==
    [][\A t \in DOMAIN tk_tasks :
          tk_tasks'[t].status # tk_tasks[t].status
             => tk_tasks'[t].status \in {"in_progress"} \cup TerminalStatuses]_vars

(***************************************************************************)
(* MessageService.bulk_create on one conversation (message_service.py).    *)
(* The calls are coroutines of one event loop: a call is suspended at the  *)
(* await of the find_one of get_next_sequence_number and at the await of   *)
(* insert_many, and other calls run in between.  The index on              *)
(* (conversation_id, sequence_number) is not unique (indexes.py line 58),  *)
(* so insert_many accepts every batch.                                     *)
(***************************************************************************)
\* at most this many calls of bulk_create, of at most this many messages
MaxBulkCalls == 3
MaxBatch     == 2

BulkCallIds == 1..MaxBulkCalls

\* the position of a call and its locals next_seq and len(messages)
Bulk(at, next_seq, n) == [at |-> at, next_seq |-> next_seq, n |-> n]

\* the largest sequence number of a non-empty collection (find_one with
\* sort sequence_number descending, lines 138-141)
HighestSequenceNumber(docs) ==
    CHOOSE m \in { docs[k].sequence_number : k \in 1..Len(docs) } :
        \A k \in 1..Len(docs) : docs[k].sequence_number <= m

\* get_next_sequence_number (lines 127-146)
get_next_sequence_number(docs) ==
    IF docs # <<>> THEN HighestSequenceNumber(docs) + 1 ELSE 1

InitMessages ==
    /\ ms_docs = <<>>
    /\ ms_pc = [c \in BulkCallIds |-> Bulk("not called", 0, 0)]
    /\ IdleLoad /\ IdleTask
    /\ IdleResolver /\ IdleChunk /\ IdleEmbed /\ IdleScore /\ IdleParse

\* bulk_create is called with n messages and reads its starting sequence
\* number (line 166)
BulkCreateRead(c, n) ==
    /\ ms_pc # <<>>
    /\ ms_pc[c].at = "not called"
    /\ ms_pc' = [ms_pc EXCEPT ![c] = Bulk("read", get_next_sequence_number(ms_docs), n)]
    /\ UNCHANGED <<ms_docs, loadVars, taskVars,
                   resolverVars, chunkVars, embedVars, scoreVars, parseVars>>

\* the call numbers its messages next_seq + i for i = 0, 1, ... (lines
\* 171-180), inserts them if there are any (lines 183-184) and returns
BulkCreateInsert(c) ==
    /\ ms_pc # <<>>
    /\ ms_pc[c].at = "read"
    /\ ms_docs' = ms_docs \o [i \in 1..ms_pc[c].n |->
                                [sequence_number |-> ms_pc[c].next_seq + (i - 1),
                                 call |-> c]]
    /\ ms_pc' = [ms_pc EXCEPT ![c].at = "returned"]
    /\ UNCHANGED <<loadVars, taskVars,
                   resolverVars, chunkVars, embedVars, scoreVars, parseVars>>

NextMessages ==
    \/ \E c \in BulkCallIds, n \in 0..MaxBatch : BulkCreateRead(c, n)
    \/ \E c \in BulkCallIds : BulkCreateInsert(c)

SpecMessages == InitMessages /\ [][NextMessages]_vars

\* C30: the sequence numbers of the conversation are pairwise distinct and
\* are 1, 2, 3, ... in insertion order, also when calls of bulk_create
\* interleave between reading the next sequence number and inserting.
C30_SequenceNumbersAreConsecutive ==
    \A k \in 1..Len(ms_docs) : ms_docs[k].sequence_number = k

\* what the code does: the first message of the conversation has number 1
\* and the messages of one call are numbered consecutively; two calls that
\* have read the same starting number both insert it
C30_CodeBehaviour ==
    /\ ms_docs # <<>> => ms_docs[1].sequence_number = 1
    /\ \A k \in 1..(Len(ms_docs) - 1) :
          ms_docs[k + 1].call = ms_docs[k].call
             => ms_docs[k + 1].sequence_number = ms_docs[k].sequence_number + 1
====
